---- MODULE Spec2Model ----
(***************************************************************************)
(* A model of the OSLC client: its RDF resource wrappers over an rdflib    *)
(* store (OSLCResource, RootServices, ServiceProviderCatalog,              *)
(* ServiceProvider), the discovery chain OSLCClient.use(), the operations  *)
(* that depend on it, and the response interceptor that negotiates         *)
(* authentication.                                                         *)
(*                                                                         *)
(* Three specifications share the module:                                  *)
(*   SpecCat   the catalog lookup, a pure function of a store and a title; *)
(*   Spec      the client: use(), query(), queryResources() and            *)
(*             createResource() running as asynchronous calls;             *)
(*   SpecAuth  the axios response interceptor of the constructor           *)
(*             (FairSpecAuth adds that every HTTP exchange completes).     *)
(***************************************************************************)
EXTENDS Integers, Sequences, FiniteSets, TLC

(***************************************************************************)
(* Bounds of the model.                                                    *)
(***************************************************************************)
\* the counters of requests stop counting here
MaxCount == 3

\* the deepest nesting of interceptor activations that await a credential
\* POST
MaxDepth == 2

\* the longest catalog store SpecCat enumerates (number of statements)
MaxCatStmts == 2

\* the largest number of statements in a resource's store at construction
MaxResStmts == 2

\* the largest number of nodes in an array passed to set()
MaxValues == 2

(***************************************************************************)
(* RDF terms.  A URL is the sequence of its path segments, a literal's     *)
(* text the sequence of its characters; a term carries its kind (t), its  *)
(* value (v) and, for a literal, its datatype (dt).  rdflib identifies a   *)
(* term by its N-Triples form, so two literals are the same term only     *)
(* when text and datatype agree.                                           *)
(***************************************************************************)
undefined == <<>>

Undef == [t |-> "undef", v |-> <<>>, dt |-> ""]

sym(url) == [t |-> "uri", v |-> url, dt |-> ""]

literal(text, datatype) == [t |-> "lit", v |-> text, dt |-> datatype]

XMLLiteral == "rdf:XMLLiteral"

xsdString == "xsd:string"

\* what .value of an optional term gives (catalog?.value)
value(term) == IF term = Undef THEN undefined ELSE term.v

(***************************************************************************)
(* The store: rdflib's IndexedFormula keeps its statements in insertion    *)
(* order, and statementsMatching / each / any / the answer in that order.  *)
(* An undefined argument is a wildcard.                                    *)
(***************************************************************************)
st(s, p, o) == [s |-> s, p |-> p, o |-> o]

matches(q, s, p, o) ==
    /\ (s = Undef \/ q.s = s)
    /\ (p = Undef \/ q.p = p)
    /\ (o = Undef \/ q.o = o)

statementsMatching(store, s, p, o) ==
    SelectSeq(store, LAMBDA q : matches(q, s, p, o))

\* store.each(s, p): the objects of the matching statements, in order
each(store, s, p) ==
    LET m == statementsMatching(store, s, p, Undef)
    IN  [i \in 1..Len(m) |-> m[i].o]

\* store.the(s, p) / store.any(s, p): the first matching object, if any
the(store, s, p) ==
    LET m == statementsMatching(store, s, p, Undef)
    IN  IF Len(m) = 0 THEN Undef ELSE m[1].o

\* the sequences without repetition over a set, up to a length
RECURSIVE SeqsUpTo(_, _)
SeqsUpTo(S, n) ==
    IF n = 0 THEN {<<>>}
    ELSE LET shorter == SeqsUpTo(S, n - 1)
         IN  shorter \cup
             {Append(q, x) : q \in {r \in shorter : Len(r) = n - 1},
                             x \in S}

NoDup(q) == \A i, j \in 1..Len(q) : i # j => q[i] # q[j]

Stores(S, n) == {q \in SeqsUpTo(S, n) : NoDup(q)}

(***************************************************************************)
(* Predicates (namespaces.js) as named nodes.                              *)
(***************************************************************************)
dcterms(name) == sym(<<"dcterms", name>>)

oslc(name) == sym(<<"oslc", name>>)

(***************************************************************************)
(* Texts.  Letters carry their case, so that case folding and trimming     *)
(* are operations a comparison may or may not apply.                       *)
(***************************************************************************)
lowerChar(c) == CASE c = "A" -> "a" [] c = "B" -> "b" [] c = "C" -> "c" [] OTHER -> c

toLowerCase(text) == [i \in 1..Len(text) |-> lowerChar(text[i])]

RECURSIVE trimStart(_)
trimStart(text) ==
    IF Len(text) > 0 /\ text[1] = " " THEN trimStart(Tail(text)) ELSE text

RECURSIVE trimEnd(_)
trimEnd(text) ==
    IF Len(text) > 0 /\ text[Len(text)] = " "
    THEN trimEnd(SubSeq(text, 1, Len(text) - 1)) ELSE text

trim(text) == trimEnd(trimStart(text))

Titles == { <<"A", "b">>, <<"a", "b">>, <<"A", "b", " ">>, <<"C">> }

(***************************************************************************)
(* ServiceProviderCatalog.serviceProvider(title): the subject of the first *)
(* statement whose predicate is dcterms:title and whose object is the      *)
(* literal $rdf.literal(title, rdf:XMLLiteral).                            *)
(***************************************************************************)
serviceProvider_foldcase(store, serviceProviderTitle) ==
    LET found == SelectSeq(store, LAMBDA q :
                     /\ q.p = dcterms("title")
                     /\ q.o.t = "lit" /\ q.o.dt = XMLLiteral
                     /\ toLowerCase(trim(q.o.v)) =
                            toLowerCase(trim(serviceProviderTitle)))
    IN  IF Len(found) = 0 THEN undefined ELSE found[1].s.v

serviceProvider(store, serviceProviderTitle) ==
    LET found == statementsMatching(store, Undef, dcterms("title"),
                                    literal(serviceProviderTitle, XMLLiteral))
    IN  IF Len(found) = 0 THEN undefined ELSE found[1].s.v


(***************************************************************************)
(* URLs.  A query string is a final segment that starts with "?".          *)
(***************************************************************************)
QuerySegments == {"?oslc.paging=false", "?x=1"}

\* new URL(uri).origin + pathname: the URL without its query string
canonical(url) == SelectSeq(url, LAMBDA seg : seg \notin QuerySegments)

\* server_url?.endsWith("/") ? server_url.slice(0, -1) : server_url
\* (a trailing slash is a final empty segment)
stripSlash(server_url) ==
    IF Len(server_url) > 0 /\ server_url[Len(server_url)] = ""
    THEN SubSeq(server_url, 1, Len(server_url) - 1)
    ELSE server_url

rootservicesURL(base) == Append(base, "rootservices")

(***************************************************************************)
(* OSLCResource and its subclasses: a subject and a store.                 *)
(***************************************************************************)
null == [uri |-> <<>>, store |-> <<>>, queryURI |-> <<>>, etag |-> "none"]

OSLCResource(uri, store) ==
    [uri |-> canonical(uri), store |-> store, queryURI |-> uri, etag |-> "none"]

\* new OSLCResource(uri, store, etag)
tagged(resource, etag) == [resource EXCEPT !.etag = etag]

getURI(resource) == resource.uri

rdfs(name) == sym(<<"rdfs", name>>)

\* what get() returns and set() takes: undefined, one value, or an array of
\* values; v lists the values
absent == [k |-> "undefined", v |-> <<>>]

single(v) == [k |-> "single", v |-> <<v>>]

array(q) == [k |-> "array", v |-> q]

propertyValue(objects) ==
    IF Len(objects) = 1 THEN single(value(objects[1]))
    ELSE IF Len(objects) > 1
         THEN array([i \in 1..Len(objects) |-> value(objects[i])])
         ELSE absent

\* OSLCResource.get(property)
get_anySubject(resource, property) ==
    propertyValue(each(resource.store, Undef, property))

get(resource, property) ==
    propertyValue(each(resource.store, sym(resource.uri), property))

\* OSLCResource.getProperties(): the value of every predicate that has a
\* statement about the resource's subject
getProperties(resource) ==
    LET about == statementsMatching(resource.store, sym(resource.uri), Undef, Undef)
    IN  [p \in {about[i].p : i \in 1..Len(about)} |->
            propertyValue(each(resource.store, sym(resource.uri), p))]

\* store.remove(statements)
remove(store, sts) ==
    SelectSeq(store, LAMBDA q : \A i \in 1..Len(sts) : sts[i] # q)

\* store.add(subject, p, value): a statement the store holds is not added
add(store, q) ==
    IF \E i \in 1..Len(store) : store[i] = q THEN store ELSE Append(store, q)

RECURSIVE addEach(_, _, _, _)
addEach(store, subject, p, values) ==
    IF Len(values) = 0 THEN store
    ELSE addEach(add(store, st(subject, p, Head(values))), subject, p, Tail(values))

\* OSLCResource.set(property, value): value is undefined, one node or an
\* array of nodes
set_append(resource, property, val) ==
    [resource EXCEPT !.store =
        CASE val.k = "undefined" -> @
          [] val.k = "array" -> addEach(@, sym(resource.uri), property, val.v)
          [] OTHER -> add(@, st(sym(resource.uri), property, val.v[1]))]

set_anySubject(resource, property, val) ==
    LET subject == sym(resource.uri)
        removed == remove(resource.store,
                          statementsMatching(resource.store, Undef, property, Undef))
    IN  [resource EXCEPT !.store =
            CASE val.k = "undefined" -> removed
              [] val.k = "array" -> addEach(removed, subject, property, val.v)
              [] OTHER -> add(removed, st(subject, property, val.v[1]))]

set(resource, property, val) ==
    LET subject == sym(resource.uri)
        removed == remove(resource.store,
                          statementsMatching(resource.store, subject, property, Undef))
    IN  [resource EXCEPT !.store =
            CASE val.k = "undefined" -> removed
              [] val.k = "array" -> addEach(removed, subject, property, val.v)
              [] OTHER -> add(removed, st(subject, property, val.v[1]))]

\* OSLCResource.getTitle()
getTitle(resource) ==
    LET result == get(resource, dcterms("title"))
    IN  IF result.k = "array" THEN single(result.v[1]) ELSE result

\* OSLCResource.setTitle(value)
setTitle(resource, text) ==
    set(resource, dcterms("title"), single(literal(text, xsdString)))

\* OSLCResource.getLinkTypes()
getLinkTypes(resource) ==
    LET about == statementsMatching(resource.store, sym(resource.uri), Undef, Undef)
    IN  {about[i].p.v : i \in {j \in 1..Len(about) : about[j].o.t = "uri"}}

\* OSLCClient.queryResources: one OSLCResource per member statement, over
\* the statements of the graph whose subject is the member
memberResources(kb) ==
    LET members == statementsMatching(kb, Undef, rdfs("member"), Undef)
    IN  [i \in 1..Len(members) |->
            OSLCResource(members[i].o.v,
                         statementsMatching(kb, members[i].o, Undef, Undef))]

\* the catalog predicate of a domain; undefined for any other tag
serviceProviders(domain) ==
    CASE domain = "CM" -> sym(<<"oslc_cm1", "cmServiceProviders">>)
      [] domain = "RM" -> sym(<<"oslc_rm", "rmServiceProviders">>)
      [] domain = "QM" -> sym(<<"oslc_qm1", "qmServiceProviders">>)
      [] OTHER -> Undef

\* RootServices.serviceProviderCatalog(serviceProviders)
serviceProviderCatalog_any(rs, predicate) ==
    LET m == SelectSeq(rs.store, LAMBDA q : q.s = sym(rs.uri))
    IN  IF Len(m) = 0 THEN undefined ELSE m[1].o.v

serviceProviderCatalog(rs, predicate) ==
    value(the(rs.store, sym(rs.uri), predicate))

\* the concatenation of a sequence of sequences
RECURSIVE flatten(_)
flatten(qq) == IF Len(qq) = 0 THEN <<>> ELSE Head(qq) \o flatten(Tail(qq))

\* all the objects reached from the provider by oslc:service and then by
\* `link`, in the order the two nested loops visit them
capabilities(p, link) ==
    LET services == each(p.store, sym(p.uri), oslc("service"))
    IN  flatten([i \in 1..Len(services) |->
                    each(p.store, services[i], link)])

\* aType.value?.endsWith(resourceType)
endsWith(text, suffix) ==
    /\ Len(suffix) <= Len(text)
    /\ SubSeq(text, Len(text) - Len(suffix) + 1, Len(text)) = suffix

\* ServiceProvider.getQueryBase(resourceType)
getQueryBase_anyType(p, resourceType) ==
    LET hits == capabilities(p, oslc("queryCapability"))
    IN  IF Len(hits) = 0 THEN undefined
        ELSE value(the(p.store, hits[1], oslc("queryBase")))

getQueryBase_nextMatch(p, resourceType) ==
    LET resourceTypeSym == sym(resourceType.v)
        hits == SelectSeq(capabilities(p, oslc("queryCapability")),
                    LAMBDA qc :
                       /\ Len(statementsMatching(p.store, qc,
                              oslc("resourceType"), resourceTypeSym)) > 0
                       /\ the(p.store, qc, oslc("queryBase")) # Undef)
    IN  IF Len(hits) = 0 THEN undefined
        ELSE value(the(p.store, hits[1], oslc("queryBase")))

getQueryBase(p, resourceType) ==
    LET resourceTypeSym == sym(resourceType.v)
        hits == SelectSeq(capabilities(p, oslc("queryCapability")),
                    LAMBDA qc : Len(statementsMatching(p.store, qc,
                                    oslc("resourceType"), resourceTypeSym)) > 0)
    IN  IF Len(hits) = 0 THEN undefined
        ELSE value(the(p.store, hits[1], oslc("queryBase")))

\* ServiceProvider.getCreationFactory(resourceType)
getCreationFactory_first(p, resourceType) ==
    LET hits == capabilities(p, oslc("creationFactory"))
    IN  IF Len(hits) = 0 THEN undefined
        ELSE value(the(p.store, hits[1], oslc("creation")))

getCreationFactory(p, resourceType) ==
    LET declares(cf) ==
            IF resourceType.t = "str"
            THEN \E i \in 1..Len(each(p.store, cf, oslc("resourceType"))) :
                    endsWith(each(p.store, cf, oslc("resourceType"))[i].v,
                             resourceType.v)
            ELSE Len(statementsMatching(p.store, cf, oslc("resourceType"),
                                        resourceType)) = 1
        hits == SelectSeq(capabilities(p, oslc("creationFactory")), declares)
    IN  IF Len(hits) = 0 THEN undefined
        ELSE value(the(p.store, hits[1], oslc("creation")))


(***************************************************************************)
(* State.                                                                  *)
(*   lk            a call of ServiceProviderCatalog.serviceProvider        *)
(*   rootservices, spc, sp, base_url   the client's fields                 *)
(*   call          the asynchronous calls on the client, each at one of    *)
(*                 its awaits                                              *)
(*   succeeded     history: a use() has completed successfully             *)
(*   net           the transport: the request in flight and the            *)
(*                 interceptor activations that wait for it                *)
(*   res           an OSLCResource the caller holds                        *)
(***************************************************************************)
VARIABLES lk, rootservices, spc, sp, base_url, call, succeeded, net, res,
          ownerMap

vars == <<lk, rootservices, spc, sp, base_url, call, succeeded, net, res,
         ownerMap>>

clientVars == <<rootservices, spc, sp, base_url, call, succeeded, ownerMap>>

(***************************************************************************)
(* The servers' documents.                                                 *)
(***************************************************************************)
ServerURL == <<"srv", "ccm">>

RootURL == <<"srv", "ccm", "rootservices">>

CatalogURL == <<"srv", "ccm", "catalog">>

ProviderURL1 == <<"srv", "ccm", "pa1">>

ProviderURL2 == <<"srv", "ccm", "pa2">>

Providers == {ProviderURL1, ProviderURL2}

\* the statements a catalog document may hold: titles of the providers and
\* of the catalog itself, as XML literals or as plain strings, and a
\* description that carries a title's text
CatalogStatements ==
    {st(sym(s), dcterms("title"), literal(t, dt)) :
        s \in {ProviderURL1, ProviderURL2, CatalogURL},
        t \in Titles, dt \in {XMLLiteral, xsdString}}
    \cup {st(sym(ProviderURL2), dcterms("description"), literal(t, XMLLiteral)) :
            t \in Titles}

idleLookup == [pc |-> "idle", store |-> <<>>, title |-> <<>>, result |-> undefined]

Calls == {1, 2}

\* a call: the operation, the await it is at, its arguments (name, domain,
\* rt), the URL of the request it waits for (url), the subject its next-page
\* link is read from (key), the graph it accumulates (store), and, as
\* history, the requests it has issued (log), the documents it has received
\* (got) and the error it ended with (out); the resources queryResources
\* or createResource returns (resources), the resource passed to it (arg)
\* and the statuses its requests settled with (statuses); the ETag passed
\* to putResource (eTag); whether the client runs under Node and the
\* cookies its jar holds when deleteResource looks (isNodeEnvironment, jar);
\* the responses getResource and queryWithBase got (responses) and the
\* content type queryWithBase keeps of its first page (contentType); the
\* name getOwner returns (ret)
noError == [err |-> "none", arg |-> <<>>]

idleCall ==
    [op |-> "none", pc |-> "idle", name |-> <<>>, domain |-> "",
     rt |-> Undef, url |-> <<>>, key |-> <<>>, store |-> <<>>,
     log |-> <<>>, got |-> <<>>, out |-> noError, resources |-> <<>>,
     arg |-> null, statuses |-> <<>>, eTag |-> "none",
     isNodeEnvironment |-> FALSE, jar |-> <<>>,
     responses |-> <<>>, contentType |-> "none", ret |-> <<>>]

\* the URLs getOwner is asked for
OwnerURLs == { <<"srv", "jts", "users", "ab">>, <<"srv", "jts", "users", "c">> }

clientIdle ==
    /\ rootservices = null
    /\ spc = null
    /\ sp = null
    /\ base_url = <<>>
    /\ call = [c \in Calls |-> idleCall]
    /\ succeeded = FALSE
    /\ ownerMap = [u \in OwnerURLs |-> undefined]

\* a request: the caller's ("orig"), the form login POST ("login") or the
\* token POST ("token"), with what the interceptor has put on its config:
\* basic credentials (auth) and a bearer Authorization header (bearer)
newRequest(kind) ==
    [kind |-> kind, auth |-> FALSE, bearer |-> FALSE, url |-> RootURL]

\* the token_uri of a jauth challenge
TokenURL == <<"srv", "jts", "jauth-issue-token">>

\* the URL of the form login POST: url.pathname = paths[1] ?
\* `/${paths[1]}/j_security_check` : '/j_security_check', the rest of the
\* URL (origin and query string) staying as it is
loginURL_replaceLast(url) ==
    LET path == SubSeq(canonical(url), 2, Len(canonical(url)))
    IN  <<url[1]>> \o SubSeq(path, 1, Len(path) - 1) \o <<"j_security_check">>
          \o SelectSeq(url, LAMBDA seg : seg \in QuerySegments)

loginURL(url) ==
    LET path == SubSeq(canonical(url), 2, Len(canonical(url)))
    IN  <<url[1]>>
          \o (IF path # <<>> /\ path[1] # "" THEN <<path[1]>> ELSE <<>>)
          \o <<"j_security_check">>
          \o SelectSeq(url, LAMBDA seg : seg \in QuerySegments)

\* the credential POST the interceptor sends on a challenge to `url`
credentialPOST(kind, url) ==
    [newRequest(kind) EXCEPT
        !.url = IF kind = "login" THEN loginURL(url) ELSE TokenURL]

\* history of the handling of a response that carried both the form-auth
\* marker and status 401
noBoth == [seen |-> FALSE, branch |-> "none", retried |-> FALSE,
           before |-> newRequest("orig"), after |-> newRequest("orig")]

\* the resource the caller holds (r) and, as history, its URI right after
\* construction (uri0) and the last call on it: the method (op), the property
\* (p) and values (v) passed, what it returned (ret) and the URL it sent a
\* request to (url)
noCall == [op |-> "none", p |-> Undef, v |-> <<>>, ret |-> absent, url |-> <<>>]

idleRes == [r |-> null, uri0 |-> <<>>, last |-> noCall]

\* the transport: the request in flight (cur), the interceptor activations
\* that await a credential POST (stack), what the caller got (result) and,
\* as history, how often the caller's request was re-issued (retries), how
\* many credential POSTs were sent (posts), whether one was sent after a
\* retry (late), and the branch taken for the last response (branch); the
\* last response the interceptor handled, the request it answered and the
\* request sent next (handled); how many token challenges were taken up
\* (jauths) and how often a token POST was sent (tokenPosts); the request
\* issued again after the last credential POST and the branch that did so
\* (retry); how an auth exchange failed: a challenge without token_uri or
\* a rejected credential POST (failed)
noResponse == [status |-> 0, marker |-> FALSE, www |-> "none"]

noHandled == [resp |-> noResponse, req |-> newRequest("orig"),
              next |-> newRequest("orig"), posted |-> FALSE]

noRetry == [branch |-> "none", req |-> newRequest("orig")]

idleNet ==
    [pc |-> "idle", cur |-> newRequest("orig"), stack |-> <<>>,
     result |-> "none", retries |-> 0, posts |-> 0, late |-> FALSE,
     branch |-> "none", both |-> noBoth, handled |-> noHandled,
     jauths |-> 0, tokenPosts |-> 0, retry |-> noRetry, failed |-> "none"]

\* the Authorization header a request goes out with: axios builds it from
\* config.auth when that is set, in place of a header of the config
authorization(req) ==
    IF req.auth THEN "Basic" ELSE IF req.bearer THEN "Bearer" ELSE "none"

(***************************************************************************)
(* SpecCat: serviceProvider(title) on every catalog store of up to         *)
(* MaxCatStmts statements.                                                 *)
(***************************************************************************)
InitCat ==
    /\ lk \in [pc : {"start"}, store : Stores(CatalogStatements, MaxCatStmts),
               title : Titles, result : {undefined}]
    /\ clientIdle
    /\ net = idleNet
    /\ res = idleRes

Lookup ==
    /\ lk.pc = "start"
    /\ lk' = [lk EXCEPT !.pc = "done",
                        !.result = serviceProvider(lk.store, lk.title)]
    /\ UNCHANGED <<clientVars, net, res>>

NextCat == Lookup

SpecCat == InitCat /\ [][NextCat]_vars

\* the title statements of the looked-up store whose text is exactly the title
titled(store, title) ==
    SelectSeq(store, LAMBDA q : q.p = dcterms("title") /\ q.o.t = "lit"
                                 /\ q.o.v = title)

\* C7: serviceProvider(T) returns a URI only of a subject whose dcterms:title
\* text equals T character for character (a title that differs in letter case
\* or in surrounding whitespace never matches), and returns undefined when no
\* title equals T.
C7_ExactTitleOnly ==
    lk.pc = "done" =>
        /\ lk.result # undefined =>
              \E i \in 1..Len(titled(lk.store, lk.title)) :
                  titled(lk.store, lk.title)[i].s.v = lk.result
        /\ Len(titled(lk.store, lk.title)) = 0 => lk.result = undefined

\* a lookup that found nothing although a subject is titled with a text that
\* differs from T only in case or surrounding whitespace
C7_Witness ==
    /\ lk.pc = "done"
    /\ lk.result = undefined
    /\ \E i \in 1..Len(lk.store) :
          /\ lk.store[i].p = dcterms("title")
          /\ lk.store[i].o.dt = XMLLiteral
          /\ lk.store[i].o.v # lk.title
          /\ toLowerCase(trim(lk.store[i].o.v)) = toLowerCase(trim(lk.title))

\* C8: if the catalog holds a provider whose dcterms:title literal is exactly
\* T, serviceProvider(T) returns the URI of a subject titled T, whatever the
\* kind of literal the title is stored as.
C8_FindsEveryExactTitle ==
    (/\ lk.pc = "done"
     /\ \E i \in 1..Len(titled(lk.store, lk.title)) :
           titled(lk.store, lk.title)[i].s.v \in Providers) =>
        /\ lk.result # undefined
        /\ \E i \in 1..Len(titled(lk.store, lk.title)) :
              titled(lk.store, lk.title)[i].s.v = lk.result


(***************************************************************************)
(* Spec: the client.  The documents the server answers with.               *)
(***************************************************************************)
UnrelatedURL == <<"srv", "ccm", "about">>

QueryBaseURL == <<"srv", "ccm", "query">>

Page2URL == <<"srv", "ccm", "query", "page2">>

Page3URL == <<"srv", "ccm", "query", "page3">>

FactoryURL == <<"srv", "ccm", "create">>

LocationURL == <<"srv", "ccm", "wi", "1001">>

\* a member URI that carries a query string
MemberQueryURL == <<"srv", "ccm", "wi", "?x=1">>

ChangeRequest == <<"oslc_cm", "ChangeRequest">>

Task == <<"oslc_cm", "Task">>

\* a resource type whose URI ends like that of Task
SubTask == <<"oslc_cm", "Sub", "Task">>

Factory2URL == <<"srv", "ccm", "create2">>

\* a resource type given as a string
str(text) == [t |-> "str", v |-> text, dt |-> ""]

\* rootservices documents: one that names the CM catalog after an unrelated
\* statement, one with the unrelated statement only, an empty one
RootFixtures ==
    { << st(sym(RootURL), sym(<<"jd", "about">>), sym(UnrelatedURL)),
         st(sym(RootURL), serviceProviders("CM"), sym(CatalogURL)) >>,
      << st(sym(RootURL), sym(<<"jd", "about">>), sym(UnrelatedURL)) >>,
      << >> }

\* catalogs: a titled catalog with two providers whose titles differ in case,
\* a catalog whose provider title is a plain string, an empty one
CatalogFixtures ==
    { << st(sym(CatalogURL), dcterms("title"), literal(<<"C">>, XMLLiteral)),
         st(sym(ProviderURL1), dcterms("title"), literal(<<"A", "b">>, XMLLiteral)),
         st(sym(ProviderURL2), dcterms("title"), literal(<<"a", "b">>, XMLLiteral)) >>,
      << st(sym(ProviderURL1), dcterms("title"), literal(<<"A", "b">>, xsdString)) >>,
      << >> }

\* providers: one with a query capability and a creation factory for change
\* requests, an empty one, one with a creation factory for subtasks before
\* one for change requests
ProviderFixtures ==
    { << st(sym(ProviderURL1), oslc("service"), sym(<<"s1">>)),
         st(sym(<<"s1">>), oslc("queryCapability"), sym(<<"qc1">>)),
         st(sym(<<"qc1">>), oslc("resourceType"), sym(ChangeRequest)),
         st(sym(<<"qc1">>), oslc("queryBase"), sym(QueryBaseURL)),
         st(sym(<<"s1">>), oslc("creationFactory"), sym(<<"cf1">>)),
         st(sym(<<"cf1">>), oslc("resourceType"), sym(ChangeRequest)),
         st(sym(<<"cf1">>), oslc("creation"), sym(FactoryURL)) >>,
      << >>,
      << st(sym(ProviderURL1), oslc("service"), sym(<<"s1">>)),
         st(sym(<<"s1">>), oslc("creationFactory"), sym(<<"cf2">>)),
         st(sym(<<"cf2">>), oslc("resourceType"), sym(SubTask)),
         st(sym(<<"cf2">>), oslc("creation"), sym(Factory2URL)),
         st(sym(<<"s1">>), oslc("creationFactory"), sym(<<"cf1">>)),
         st(sym(<<"cf1">>), oslc("resourceType"), sym(ChangeRequest)),
         st(sym(<<"cf1">>), oslc("creation"), sym(FactoryURL)) >> }

\* query result pages: a first page that links to a second, a second page,
\* a single page, a second page that links to a third, a third page, a page
\* with the statements of its members, one of them with a query string in
\* its URI
PageFixtures ==
    { << st(sym(QueryBaseURL), oslc("nextPage"), sym(Page2URL)),
         st(sym(QueryBaseURL), rdfs("member"), sym(<<"m1">>)) >>,
      << st(sym(Page2URL), rdfs("member"), sym(<<"m2">>)) >>,
      << st(sym(QueryBaseURL), rdfs("member"), sym(<<"m1">>)) >>,
      << st(sym(QueryBaseURL), rdfs("member"), sym(<<"m2">>)),
         st(sym(Page2URL), oslc("nextPage"), sym(Page3URL)) >>,
      << st(sym(QueryBaseURL), rdfs("member"), sym(<<"m1">>)),
         st(sym(QueryBaseURL), rdfs("member"), sym(<<"m3">>)) >>,
      << st(sym(QueryBaseURL), rdfs("member"), sym(LocationURL)),
         st(sym(LocationURL), dcterms("title"), literal(<<"A", "b">>, xsdString)),
         st(sym(QueryBaseURL), rdfs("member"), sym(MemberQueryURL)),
         st(sym(MemberQueryURL), dcterms("title"), literal(<<"C">>, xsdString)),
         st(sym(QueryBaseURL), dcterms("title"), literal(<<"C">>, xsdString)) >> }

\* the created resource as the server returns it, with its identifier
CreatedFixtures ==
    { << st(sym(LocationURL), dcterms("identifier"), literal(<<"1001">>, xsdString)),
         st(sym(LocationURL), dcterms("title"), literal(<<"A", "b">>, xsdString)) >> }

\* the resources a caller passes to createResource, putResource and
\* deleteResource: a new one with a title, one read from the server with
\* its ETag, one whose URI carries a query string
ResourceArgs ==
    { OSLCResource(UnrelatedURL,
          << st(sym(UnrelatedURL), dcterms("title"), literal(<<"A", "b">>, xsdString)) >>),
      tagged(OSLCResource(LocationURL,
          << st(sym(LocationURL), dcterms("title"), literal(<<"C">>, xsdString)) >>), "etag1"),
      OSLCResource(MemberQueryURL, <<>>) }

ServerURLs == {ServerURL, Append(ServerURL, "")}

ProviderNames == { <<"A", "b">>, <<"A", "b", " ">>, <<"C">> }

Domains == {"CM", "QM", "XX"}

ResourceTypes ==
    {sym(ChangeRequest), sym(Task), str(<<"ChangeRequest">>), str(<<"Task">>)}

\* what a request through the transport settles with: a response whose body
\* is an RDF document ("rdf"), an accepted response of another content type
\* ("xml") or of another status ("status"), or a rejection ("error")
Responses(fixtures) ==
    [kind : {"rdf"}, store : fixtures]
    \cup [kind : {"xml", "status", "error"}, store : {<<>>}]

\* validateStatus: of the client (status === 401 || status < 400); of the
\* form login POST (status === 302).  The caller's requests follow
\* redirects, the login POST does not (maxRedirects: 0).
validateStatus(req, status) ==
    IF req.kind = "login" THEN status = 302
    ELSE status = 401 \/ status < 400

\* the statuses a request of an operation settles with; 0: no response.
\* A response the caller gets has passed validateStatus and is no 401: the
\* interceptor issues a further request for every 401
Statuses == {0, 200, 201, 204, 304, 404, 412}

accepted(status) ==
    /\ status # 0 /\ status # 401
    /\ validateStatus(newRequest("orig"), status)

\* the headers an operation sets on its request, of those that differ
\* between requests: If-Match and X-Jazz-CSRF-Prevent
noHeaders == [ifMatch |-> "none", csrf |-> "none"]

sending(m, u, k, body, headers) ==
    [m |-> m, u |-> u, k |-> k, body |-> body, headers |-> headers]

request(m, u, k) == sending(m, u, k, <<>>, noHeaders)

\* graph.serialize(null, 'application/rdf+xml'): the statements of the store
serialize(store) == store

error(e, a) == [err |-> e, arg |-> a]

\* $rdf.parse(data, store, ...): the statements of the document that the
\* store does not hold yet are added at its end
parse(store, doc) ==
    store \o SelectSeq(doc, LAMBDA q : \A i \in 1..Len(store) : store[i] # q)

\* what getResource() settles with: a response it wraps as an OSLCResource
\* ("rdf"), one it returns as {etag, xml} or {etag, feed} ("xml"), or a
\* rejection ("error")
Fetched(fixtures) == {r \in Responses(fixtures) : r.kind # "status"}

isResource(resp) == resp.kind = "rdf"

free(c) == call[c].pc \in {"idle", "done"}

ends(c, e) == [call[c] EXCEPT !.pc = "done", !.out = e]


(***************************************************************************)
(* OSLCClient.use(server_url, serviceProviderName, domain)                 *)
(***************************************************************************)
\* up to the first await: the rootservices document is requested
UseStart(c, server_url, serviceProviderName, domain) ==
    /\ free(c)
    /\ base_url' = stripSlash(server_url)
    /\ call' = [call EXCEPT ![c] =
                  [idleCall EXCEPT !.op = "use", !.pc = "root",
                      !.name = serviceProviderName, !.domain = domain,
                      !.url = rootservicesURL(base_url'),
                      !.log = <<request("GET", rootservicesURL(base_url'), "root")>>]]
    /\ UNCHANGED <<rootservices, spc, sp, succeeded, lk, net, res, ownerMap>>

\* the rootservices step's way on once its document is wrapped
afterRootservices(c, rs) ==
    LET spcURL == serviceProviderCatalog(rs, serviceProviders(call[c].domain))
    IN  IF spcURL = undefined
        THEN [ends(c, error("No ServiceProviderCatalog for", <<call[c].domain>>))
                 EXCEPT !.got = Append(@, rs.store)]
        ELSE [call[c] EXCEPT !.pc = "cat", !.url = spcURL,
                 !.got = Append(@, rs.store),
                 !.log = Append(@, request("GET", spcURL, "cat"))]

\* getResource(rootservices) has settled
UseRootservices(c, resp) ==
    /\ call[c].op = "use" /\ call[c].pc = "root"
    /\ IF isResource(resp)
       THEN /\ rootservices' = OSLCResource(call[c].url, resp.store)
            /\ call' = [call EXCEPT ![c] = afterRootservices(c, rootservices')]
       ELSE /\ call' = [call EXCEPT ![c] =
                          ends(c, error("Failed to fetch rootservices document", <<>>))]
            /\ UNCHANGED rootservices
    /\ UNCHANGED <<spc, sp, base_url, succeeded, lk, net, res, ownerMap>>

\* the catalog step's way on once the catalog is wrapped
afterCatalog_retry(c, catalog) ==
    LET spURL == serviceProvider(catalog.store, call[c].name)
    IN  IF spURL = undefined
        THEN [call[c] EXCEPT !.got = Append(@, catalog.store),
                 !.log = Append(@, request("GET", call[c].url, "cat"))]
        ELSE [call[c] EXCEPT !.pc = "prov", !.url = spURL,
                 !.got = Append(@, catalog.store),
                 !.log = Append(@, request("GET", spURL, "prov"))]

afterCatalog(c, catalog) ==
    LET spURL == serviceProvider(catalog.store, call[c].name)
    IN  IF spURL = undefined
        THEN [ends(c, error("not found in service catalog", call[c].name))
                 EXCEPT !.got = Append(@, catalog.store)]
        ELSE [call[c] EXCEPT !.pc = "prov", !.url = spURL,
                 !.got = Append(@, catalog.store),
                 !.log = Append(@, request("GET", spURL, "prov"))]

\* getResource(spcURL) has settled, were the provider cached with the catalog
UseCatalog_provider(c, resp) ==
    /\ call[c].op = "use" /\ call[c].pc = "cat"
    /\ IF isResource(resp)
       THEN /\ spc' = OSLCResource(call[c].url, resp.store)
            /\ sp' = spc'
            /\ call' = [call EXCEPT ![c] = afterCatalog(c, spc')]
       ELSE /\ call' = [call EXCEPT ![c] = ends(c, error(resp.kind, <<>>))]
            /\ UNCHANGED <<spc, sp>>
    /\ UNCHANGED <<rootservices, base_url, succeeded, lk, net, res, ownerMap>>

\* getResource(spcURL) has settled
UseCatalog(c, resp) ==
    /\ call[c].op = "use" /\ call[c].pc = "cat"
    /\ IF isResource(resp)
       THEN /\ spc' = OSLCResource(call[c].url, resp.store)
            /\ call' = [call EXCEPT ![c] = afterCatalog(c, spc')]
       ELSE /\ call' = [call EXCEPT ![c] = ends(c, error(resp.kind, <<>>))]
            /\ UNCHANGED spc
    /\ UNCHANGED <<rootservices, sp, base_url, succeeded, lk, net, res, ownerMap>>

\* getResource(spURL) has settled
UseProvider(c, resp) ==
    /\ call[c].op = "use" /\ call[c].pc = "prov"
    /\ IF isResource(resp)
       THEN /\ sp' = OSLCResource(call[c].url, resp.store)
            /\ call' = [call EXCEPT ![c] =
                          [ends(c, noError) EXCEPT !.got = Append(@, resp.store)]]
            /\ succeeded' = TRUE
       ELSE /\ call' = [call EXCEPT ![c] = ends(c, error(resp.kind, <<>>))]
            /\ UNCHANGED <<sp, succeeded>>
    /\ UNCHANGED <<rootservices, spc, base_url, lk, net, res, ownerMap>>

(***************************************************************************)
(* OSLCClient.query / queryResources / queryWithBase                       *)
(***************************************************************************)
\* the requests query() issues before its first await, given the cached
\* provider: one GET of the query base with the paging flag
queryRequests_rediscover(provider, queryBase) ==
    << request("GET", provider.uri, "prov"),
       request("GET", Append(queryBase, "?oslc.paging=false"), "query") >>

queryRequests(provider, queryBase) ==
    << request("GET", Append(queryBase, "?oslc.paging=false"), "query") >>

\* the guard of query() and createResource(): !this.sp
initialized_catalog(provider) == spc # null

initialized(provider) == provider # null

QueryStart(c, op, resourceType) ==
    /\ free(c)
    /\ op \in {"query", "queryResources"}
    /\ LET me == [idleCall EXCEPT !.op = op, !.rt = resourceType]
           queryBase == getQueryBase(sp, resourceType)
       IN  call' = [call EXCEPT ![c] =
             IF ~initialized(sp)
             THEN [me EXCEPT !.pc = "done",
                     !.out = error("ServiceProvider not initialized", <<>>)]
             ELSE IF queryBase = undefined
             THEN [me EXCEPT !.pc = "done",
                     !.out = error("No query capability found for", resourceType.v)]
             ELSE [me EXCEPT !.pc = "page", !.key = queryBase,
                     !.url = Append(queryBase, "?oslc.paging=false"),
                     !.log = queryRequests(sp, queryBase)]]
    /\ UNCHANGED <<rootservices, spc, sp, base_url, succeeded, lk, net, res, ownerMap>>

\* a page is parsed into the call's graph: follow the next-page link of the
\* subject `key`, or return the graph
afterPage_noFollow(c, doc) ==
    [ends(c, noError) EXCEPT !.store = parse(call[c].store, doc),
                             !.got = Append(@, doc)]

afterPage(c, doc) ==
    LET store == parse(call[c].store, doc)
        nextPage == value(the(store, sym(call[c].key), oslc("nextPage")))
    IN  IF nextPage # undefined
        THEN [call[c] EXCEPT !.store = store, !.url = nextPage, !.key = nextPage,
                 !.got = Append(@, doc),
                 !.log = Append(@, request("GET", nextPage, "page"))]
        ELSE [ends(c, noError) EXCEPT !.store = store, !.got = Append(@, doc),
                 !.resources = IF call[c].op = "queryResources"
                               THEN memberResources(store) ELSE <<>>]

\* the GET of the query base has settled
QueryFirstPage(c, resp) ==
    /\ call[c].pc = "page" /\ Len(call[c].log) = 1
    /\ call' = [call EXCEPT ![c] =
          CASE resp.kind = "error" -> ends(c, error("error", <<>>))
            [] resp.kind = "status" -> ends(c, error("Failed to query resource", <<>>))
            [] OTHER -> afterPage(c, resp.store)]
    /\ UNCHANGED <<rootservices, spc, sp, base_url, succeeded, lk, net, res, ownerMap>>

\* the GET of a next page has settled (its status is not looked at)
QueryNextPage(c, resp) ==
    /\ call[c].pc = "page" /\ Len(call[c].log) > 1
    /\ call' = [call EXCEPT ![c] =
          IF resp.kind = "error" THEN ends(c, error("error", <<>>))
          ELSE afterPage(c, resp.store)]
    /\ UNCHANGED <<rootservices, spc, sp, base_url, succeeded, lk, net, res, ownerMap>>

(***************************************************************************)
(* OSLCClient.createResource(resourceType, resource)                       *)
(***************************************************************************)
CreateStart(c, resourceType, resource) ==
    /\ free(c)
    /\ LET me == [idleCall EXCEPT !.op = "createResource", !.rt = resourceType,
                                  !.arg = resource]
           creationFactory == getCreationFactory(sp, resourceType)
       IN  call' = [call EXCEPT ![c] =
             IF ~initialized(sp)
             THEN [me EXCEPT !.pc = "done",
                     !.out = error("ServiceProvider not initialized", <<>>)]
             ELSE IF creationFactory = undefined
             THEN [me EXCEPT !.pc = "done",
                     !.out = error("No creation factory found for", resourceType.v)]
             ELSE [me EXCEPT !.pc = "post", !.url = creationFactory,
                     !.log = <<sending("POST", creationFactory, "create",
                                       serialize(resource.store), noHeaders)>>]]
    /\ UNCHANGED <<rootservices, spc, sp, base_url, succeeded, lk, net, res, ownerMap>>

\* response.status !== 200 && response.status !== 201
isCreated_noContent(status) == status \in {200, 201, 204}

isCreated(status) == status \in {200, 201}

\* the POST has settled: on 200 or 201 the location is read
CreatePosted(c, status, location) ==
    /\ call[c].pc = "post"
    /\ call' = [call EXCEPT ![c] =
          CASE ~accepted(status) ->
                  [ends(c, error("error", <<ToString(status)>>))
                      EXCEPT !.statuses = Append(@, status)]
            [] ~isCreated(status) ->
                  [ends(c, error("Failed to create resource", <<ToString(status)>>))
                      EXCEPT !.statuses = Append(@, status)]
            [] OTHER -> [call[c] EXCEPT !.pc = "read", !.url = location,
                            !.statuses = Append(@, status),
                            !.log = Append(@, request("GET", location, "read"))]]
    /\ UNCHANGED <<rootservices, spc, sp, base_url, succeeded, lk, net, res, ownerMap>>

\* getResource(location) has settled
CreateRead(c, resp) ==
    /\ call[c].pc = "read"
    /\ call' = [call EXCEPT ![c] =
          IF resp.kind = "error" THEN ends(c, error("error", <<>>))
          ELSE [ends(c, noError) EXCEPT !.store = resp.store,
                   !.got = Append(@, resp.store),
                   !.resources = IF isResource(resp)
                                 THEN <<OSLCResource(call[c].url, resp.store)>>
                                 ELSE <<>>]]
    /\ UNCHANGED <<rootservices, spc, sp, base_url, succeeded, lk, net, res, ownerMap>>

(***************************************************************************)
(* OSLCClient.putResource(resource, eTag)                                  *)
(***************************************************************************)
\* the eTag argument: null by default ("none"), the empty string, a token
ETags == {"none", "", "etag1", "etag2"}

\* if (eTag) headers['If-Match'] = eTag
ifMatch_stored(resource, eTag) ==
    IF eTag \notin {"none", ""} THEN eTag ELSE resource.etag

ifMatch(resource, eTag) ==
    IF eTag \notin {"none", ""} THEN eTag ELSE "none"

PutStart(c, resource, eTag) ==
    /\ free(c)
    /\ call' = [call EXCEPT ![c] =
          [idleCall EXCEPT !.op = "putResource", !.pc = "put",
              !.arg = resource, !.eTag = eTag, !.url = getURI(resource),
              !.log = <<sending("PUT", getURI(resource), "put",
                                serialize(resource.store),
                                [noHeaders EXCEPT
                                    !.ifMatch = ifMatch(resource, eTag)])>>]]
    /\ UNCHANGED <<rootservices, spc, sp, base_url, succeeded, lk, net, res, ownerMap>>

\* response.status !== 200 && response.status !== 201
isUpdated_success(status) == status \in 200..299

isUpdated(status) == status \in {200, 201}

\* the PUT has settled: on 200 or 201 the resource passed is returned
PutSettled(c, status) ==
    /\ call[c].pc = "put"
    /\ call' = [call EXCEPT ![c] =
          CASE ~accepted(status) ->
                  [ends(c, error("error", <<ToString(status)>>))
                      EXCEPT !.statuses = Append(@, status)]
            [] ~isUpdated(status) ->
                  [ends(c, error("Failed to update resource", <<ToString(status)>>))
                      EXCEPT !.statuses = Append(@, status)]
            [] OTHER -> [ends(c, noError) EXCEPT !.statuses = Append(@, status),
                            !.resources = <<call[c].arg>>]]
    /\ UNCHANGED <<rootservices, spc, sp, base_url, succeeded, lk, net, res, ownerMap>>

(***************************************************************************)
(* OSLCClient.deleteResource(resource)                                     *)
(***************************************************************************)
\* a cookie of the jar: the host it was set by, its key and its value
cookie(host, key, id) == [host |-> host, key |-> key, value |-> id]

\* the jars deleteResource finds: empty, with a session cookie of the
\* server, with a session cookie of another host, with another cookie of
\* the server before its session cookie, with two session cookies
Jars ==
    { << >>,
      << cookie("srv", "JSESSIONID", "s1") >>,
      << cookie("other", "JSESSIONID", "s2") >>,
      << cookie("srv", "LtpaToken2", "t1"), cookie("srv", "JSESSIONID", "s1") >>,
      << cookie("other", "JSESSIONID", "s2"), cookie("srv", "JSESSIONID", "s1"),
         cookie("srv", "JSESSIONID", "s3") >> }

\* jar.getCookiesSync(url): the cookies of the jar that go to the URL
getCookiesSync(jar, url) == SelectSeq(jar, LAMBDA k : k.host = url[1])

\* cookies.find(cookie => cookie.key === 'JSESSIONID')
sessionCookies(cookies) == SelectSeq(cookies, LAMBDA k : k.key = "JSESSIONID")

\* the X-Jazz-CSRF-Prevent header of the DELETE
csrfPrevent_anyHost(isNodeEnvironment, jar, url) ==
    IF isNodeEnvironment /\ sessionCookies(jar) # <<>>
    THEN sessionCookies(jar)[1].value
    ELSE "1"

csrfPrevent(isNodeEnvironment, jar, url) ==
    IF isNodeEnvironment /\ sessionCookies(getCookiesSync(jar, url)) # <<>>
    THEN sessionCookies(getCookiesSync(jar, url))[1].value
    ELSE "1"

\* the client has a jar under Node only (constructor); in a browser the
\* cookies are the browser's
DeleteStart(c, resource, isNodeEnvironment, jar) ==
    /\ free(c)
    /\ ~isNodeEnvironment => jar = <<>>
    /\ call' = [call EXCEPT ![c] =
          [idleCall EXCEPT !.op = "deleteResource", !.pc = "delete",
              !.arg = resource, !.url = getURI(resource),
              !.isNodeEnvironment = isNodeEnvironment, !.jar = jar,
              !.log = <<sending("DELETE", getURI(resource), "delete", <<>>,
                                [noHeaders EXCEPT !.csrf =
                                    csrfPrevent(isNodeEnvironment, jar,
                                                getURI(resource))])>>]]
    /\ UNCHANGED <<rootservices, spc, sp, base_url, succeeded, lk, net, res, ownerMap>>

\* response.status !== 200 && response.status !== 204
isDeleted(status) == status \in {200, 204}

\* the DELETE has settled
DeleteSettled(c, status) ==
    /\ call[c].pc = "delete"
    /\ call' = [call EXCEPT ![c] =
          CASE ~accepted(status) ->
                  [ends(c, error("error", <<ToString(status)>>))
                      EXCEPT !.statuses = Append(@, status)]
            [] ~isDeleted(status) ->
                  [ends(c, error("Failed to delete resource", <<ToString(status)>>))
                      EXCEPT !.statuses = Append(@, status)]
            [] OTHER -> [ends(c, noError) EXCEPT !.statuses = Append(@, status)]]
    /\ UNCHANGED <<rootservices, spc, sp, base_url, succeeded, lk, net, res, ownerMap>>

(***************************************************************************)
(* OSLCClient.getResource(url) and OSLCClient.queryWithBase(queryBase)     *)
(***************************************************************************)
\* a response as these two see it: its status, its content-type header
\* ("none": no header), its ETag header, the statements the parser adds to
\* the graph from its body (doc) and whether the parser then returns (ok)
\* or throws
response(status, contentType, etag, doc, ok) ==
    [status |-> status, contentType |-> contentType, etag |-> etag,
     doc |-> doc, ok |-> ok]

\* the statuses of a GET; 304 stands for the statuses below 400 that are
\* no success statuses
GetStatuses == {0, 200, 304, 404}

\* the responses to a GET: without a body; with a document of the fixtures;
\* with a document of the fixtures that breaks off after some statements
OpsResponses(fixtures) ==
    { response(s, t, "none", <<>>, t = "rdf") :
        s \in GetStatuses, t \in {"rdf", "xml", "none"} }
    \cup { response(s, "rdf", e, d, TRUE) :
             s \in {200, 304}, e \in {"none", "etag1"}, d \in fixtures }
    \cup UNION { { response(200, "rdf", "none", SubSeq(d, 1, n), FALSE) :
                     n \in 0..(Len(d) - 1) } : d \in fixtures }

\* try { $rdf.parse(data, graph, url, contentType) } catch (err) {
\* console.error(err) }: what follows the parse, whether it threw or not
afterParse_raise(c, resp, next) ==
    IF resp.ok THEN next ELSE [ends(c, error("parse", <<>>)) EXCEPT
                                  !.responses = Append(@, resp),
                                  !.statuses = Append(@, resp.status)]

afterParse(c, resp, next) == next

\* $rdf.parse: the statements it adds for a body of the content type; a
\* content type that is no RDF representation makes it throw at once
parsedAs(contentType, resp) == IF contentType = "rdf" THEN resp.doc ELSE <<>>

\* the most page requests of one query whose responses are followed
MaxPages == 4

\* pages whose next-page links form a cycle: a second page that links to
\* itself, a third page that links back to the second
CycleFixtures ==
    { << st(sym(Page2URL), oslc("nextPage"), sym(Page2URL)),
         st(sym(QueryBaseURL), rdfs("member"), sym(<<"m2">>)) >>,
      << st(sym(Page3URL), oslc("nextPage"), sym(Page2URL)) >> }

\* the pages of a query: those of the fixtures, whole
CyclePages ==
    { r \in OpsResponses(CycleFixtures) : r.ok /\ r.status = 200 /\ r.doc # <<>>
                                          /\ r.etag = "none" }

GetStart(c, url) ==
    /\ free(c)
    /\ call' = [call EXCEPT ![c] =
          [idleCall EXCEPT !.op = "getResource", !.pc = "get", !.url = url,
              !.log = <<request("GET", url, "read")>>]]
    /\ UNCHANGED <<rootservices, spc, sp, base_url, succeeded, lk, net, res, ownerMap>>

\* the GET has settled; the status of an accepted response is not looked at
GetSettled(c, resp) ==
    /\ call[c].pc = "get"
    /\ LET me == [call[c] EXCEPT !.responses = Append(@, resp),
                                 !.statuses = Append(@, resp.status)]
           ended(e) == [me EXCEPT !.pc = "done", !.out = e]
       IN  call' = [call EXCEPT ![c] =
             CASE ~accepted(resp.status) ->
                     ended(error("error", <<ToString(resp.status)>>))
               [] resp.contentType = "none" ->
                     ended(error("TypeError", <<>>))
               [] resp.contentType = "xml" -> ended(noError)
               [] OTHER ->
                     afterParse(c, resp,
                        [ended(noError) EXCEPT
                            !.store = parse(<<>>, resp.doc),
                            !.got = Append(@, resp.doc),
                            !.resources =
                               <<tagged(OSLCResource(call[c].url,
                                                     parse(<<>>, resp.doc)),
                                        resp.etag)>>])]
    /\ UNCHANGED <<rootservices, spc, sp, base_url, succeeded, lk, net, res, ownerMap>>

QueryWithBaseStart(c, queryBase) ==
    /\ free(c)
    /\ call' = [call EXCEPT ![c] =
          [idleCall EXCEPT !.op = "queryWithBase", !.pc = "page",
              !.key = queryBase,
              !.url = Append(queryBase, "?oslc.paging=false"),
              !.log = <<request("GET", Append(queryBase, "?oslc.paging=false"),
                                "query")>>]]
    /\ UNCHANGED <<rootservices, spc, sp, base_url, succeeded, lk, net, res, ownerMap>>

\* the graph a call of queryWithBase parses its pages into:
\* const store = $rdf.graph()
graphOf_shared(c) ==
    IF \E o \in Calls \ {c} : call[o].op = "queryWithBase"
    THEN LET o == CHOOSE o \in Calls \ {c} : call[o].op = "queryWithBase"
         IN  parse(call[o].store, call[c].store)
    ELSE call[c].store

graphOf(c) == call[c].store

\* a page is parsed, as the content type, into the graph of the call: the
\* next-page link of the subject `key` is followed, or the graph returned
pageParsed(c, resp, contentType) ==
    LET store == parse(graphOf(c), parsedAs(contentType, resp))
        nextPage == value(the(store, sym(call[c].key), oslc("nextPage")))
        me == [call[c] EXCEPT !.store = store, !.contentType = contentType,
                              !.got = Append(@, parsedAs(contentType, resp)),
                              !.responses = Append(@, resp),
                              !.statuses = Append(@, resp.status)]
    IN  afterParse(c, resp,
           IF nextPage # undefined
           THEN [me EXCEPT !.url = nextPage, !.key = nextPage,
                           !.log = Append(@, request("GET", nextPage, "page"))]
           ELSE [me EXCEPT !.pc = "done", !.out = noError])

\* the GET of the query base has settled
FirstPage(c, resp) ==
    /\ call[c].op = "queryWithBase" /\ call[c].pc = "page"
    /\ Len(call[c].log) = 1
    /\ LET ended(e) == [ends(c, e) EXCEPT !.responses = Append(@, resp),
                                          !.statuses = Append(@, resp.status)]
       IN  call' = [call EXCEPT ![c] =
             CASE ~accepted(resp.status) ->
                     ended(error("error", <<ToString(resp.status)>>))
               [] resp.status # 200 ->
                     ended(error("Failed to query resource",
                                 <<ToString(resp.status)>>))
               [] OTHER -> pageParsed(c, resp, resp.contentType)]
    /\ UNCHANGED <<rootservices, spc, sp, base_url, succeeded, lk, net, res, ownerMap>>

\* the GET of a next page has settled: neither its status nor its content
\* type is looked at, it is parsed as the content type of the first page
NextPage(c, resp) ==
    /\ call[c].op = "queryWithBase" /\ call[c].pc = "page"
    /\ Len(call[c].log) > 1
    /\ Len(call[c].log) <= MaxPages
    /\ call' = [call EXCEPT ![c] =
          IF ~accepted(resp.status)
          THEN [ends(c, error("error", <<ToString(resp.status)>>))
                   EXCEPT !.responses = Append(@, resp),
                          !.statuses = Append(@, resp.status)]
          ELSE pageParsed(c, resp, call[c].contentType)]
    /\ UNCHANGED <<rootservices, spc, sp, base_url, succeeded, lk, net, res, ownerMap>>

(***************************************************************************)
(* OSLCClient.getOwner(url)                                                *)
(***************************************************************************)
foaf(name) == sym(<<"foaf", name>>)

Unknown == <<"Unknown">>

\* the user documents: each owner under one name and under another, a
\* document that names only another subject, an empty document
OwnerFixtures ==
    UNION { { << st(sym(u), foaf("name"), literal(<<"A", "b">>, xsdString)) >>,
              << st(sym(u), foaf("name"), literal(<<"C">>, xsdString)) >> } :
            u \in OwnerURLs }
    \cup { << st(sym(UnrelatedURL), foaf("name"), literal(<<"C">>, xsdString)) >>,
           << >> }

OwnerResponses ==
    { r \in OpsResponses(OwnerFixtures) :
        r.etag = "none" /\ r.contentType # "xml" /\ (r.ok \/ r.doc = <<>>) }

\* this.ownerMap.has(url): a hit returns the cached name without a request
cached_never(url) == FALSE

cached(url) == ownerMap[url] # undefined

OwnerStart(c, url) ==
    /\ free(c)
    /\ call' = [call EXCEPT ![c] =
          IF cached(url)
          THEN [idleCall EXCEPT !.op = "getOwner", !.pc = "done", !.url = url,
                                !.ret = ownerMap[url]]
          ELSE [idleCall EXCEPT !.op = "getOwner", !.pc = "owner", !.url = url,
                                !.log = <<request("GET", url, "owner")>>]]
    /\ UNCHANGED <<rootservices, spc, sp, base_url, succeeded, lk, net, res,
                   ownerMap>>

\* the GET has settled: the name of the subject the content-location header
\* gives, or of the URL, is cached and returned; else 'Unknown'
OwnerSettled(c, resp, contentLocation) ==
    /\ call[c].pc = "owner"
    /\ LET me == [call[c] EXCEPT !.pc = "done",
                                 !.responses = Append(@, resp),
                                 !.statuses = Append(@, resp.status)]
           subject == IF contentLocation # undefined THEN contentLocation
                      ELSE call[c].url
           store == parse(<<>>, parsedAs(resp.contentType, resp))
           name == value(the(store, sym(subject), foaf("name")))
       IN  IF ~accepted(resp.status)
           THEN /\ call' = [call EXCEPT ![c] =
                     [me EXCEPT !.out = error("error", <<ToString(resp.status)>>)]]
                /\ UNCHANGED ownerMap
           ELSE IF resp.status # 200 \/ name = undefined
           THEN /\ call' = [call EXCEPT ![c] = [me EXCEPT !.ret = Unknown]]
                /\ UNCHANGED ownerMap
           ELSE /\ call' = [call EXCEPT ![c] = [me EXCEPT !.ret = name]]
                /\ ownerMap' = [ownerMap EXCEPT ![call[c].url] = name]
    /\ UNCHANGED <<rootservices, spc, sp, base_url, succeeded, lk, net, res>>

(***************************************************************************)
(* SpecQB: ServiceProvider.getQueryBase on enumerated provider stores.      *)
(***************************************************************************)
\* the most services and the most query capabilities of a provider
\* document that SpecQB enumerates
MaxServices == 2

MaxCapabilities == 3

\* the statements of provider documents: two services; two query
\* capabilities of the first service, the second of them also one of the
\* second service; their resource types and their query bases
ServiceStatements ==
    { st(sym(ProviderURL1), oslc("service"), sym(<<"s1">>)),
      st(sym(ProviderURL1), oslc("service"), sym(<<"s2">>)) }

CapabilityStatements ==
    { st(sym(<<"s1">>), oslc("queryCapability"), sym(<<"qc1">>)),
      st(sym(<<"s1">>), oslc("queryCapability"), sym(<<"qc2">>)),
      st(sym(<<"s2">>), oslc("queryCapability"), sym(<<"qc2">>)) }

TypeStatements ==
    { st(sym(<<"qc1">>), oslc("resourceType"), sym(ChangeRequest)),
      st(sym(<<"qc2">>), oslc("resourceType"), sym(ChangeRequest)),
      st(sym(<<"qc2">>), oslc("resourceType"), sym(Task)) }

QueryBaseStatements ==
    { st(sym(<<"qc1">>), oslc("queryBase"), sym(QueryBaseURL)),
      st(sym(<<"qc2">>), oslc("queryBase"), sym(Page2URL)) }

\* the provider documents: services, capabilities, types and query bases,
\* each in every order
ProviderStores ==
    { a \o b \o c \o d :
        a \in Stores(ServiceStatements, MaxServices),
        b \in Stores(CapabilityStatements, MaxCapabilities),
        c \in Stores(TypeStatements, MaxCapabilities),
        d \in Stores(QueryBaseStatements, MaxCapabilities) }

\* SpecQB: getQueryBase(T) on every provider document of ProviderStores
InitQB ==
    /\ lk \in [pc : {"start"}, store : ProviderStores,
               title : {<<>>}, result : {undefined}]
    /\ clientIdle
    /\ net = idleNet
    /\ res = idleRes

LookupQueryBase ==
    /\ lk.pc = "start"
    /\ lk' = [lk EXCEPT !.pc = "done",
                        !.result = getQueryBase(OSLCResource(ProviderURL1, lk.store),
                                                sym(ChangeRequest))]
    /\ UNCHANGED <<clientVars, net, res>>

NextQB == LookupQueryBase

SpecQB == InitQB /\ [][NextQB]_vars

(***************************************************************************)
(* The client's specification.                                             *)
(***************************************************************************)
Init ==
    /\ clientIdle
    /\ lk = idleLookup
    /\ net = idleNet
    /\ res = idleRes

\* one call at a time
Sequential == {1}

Next ==
    \E c \in Sequential :
        \/ \E u \in ServerURLs, n \in ProviderNames, d \in Domains :
              UseStart(c, u, n, d)
        \/ \E r \in Fetched(RootFixtures) : UseRootservices(c, r)
        \/ \E r \in Fetched(CatalogFixtures) : UseCatalog(c, r)
        \/ \E r \in Fetched(ProviderFixtures) : UseProvider(c, r)
        \/ \E op \in {"query", "queryResources"}, t \in ResourceTypes :
              QueryStart(c, op, t)
        \/ \E r \in Responses(PageFixtures) : QueryFirstPage(c, r)
        \/ \E r \in Responses(PageFixtures) : QueryNextPage(c, r)
        \/ \E t \in ResourceTypes, r \in ResourceArgs : CreateStart(c, t, r)
        \/ \E s \in Statuses : CreatePosted(c, s, LocationURL)
        \/ \E r \in Fetched(CreatedFixtures) : CreateRead(c, r)

Spec == Init /\ [][Next]_vars

\* the operations that need no service provider
NextOps ==
    \E c \in Sequential :
        \/ \E r \in ResourceArgs, e \in ETags : PutStart(c, r, e)
        \/ \E s \in Statuses : PutSettled(c, s)
        \/ \E r \in ResourceArgs, n \in BOOLEAN, j \in Jars :
              DeleteStart(c, r, n, j)
        \/ \E s \in Statuses : DeleteSettled(c, s)
        \/ \E u \in {LocationURL, MemberQueryURL} : GetStart(c, u)
        \/ \E r \in OpsResponses(CreatedFixtures) : GetSettled(c, r)
        \/ QueryWithBaseStart(c, QueryBaseURL)
        \/ \E r \in OpsResponses(PageFixtures) : FirstPage(c, r)
        \/ \E r \in OpsResponses(PageFixtures) \cup CyclePages : NextPage(c, r)

SpecOps == Init /\ [][NextOps]_vars

\* the pages of overlapping queries: complete documents, and a rejection
ParResponses ==
    { r \in OpsResponses(PageFixtures) :
        /\ r.status \in {200, 404} /\ r.etag = "none"
        /\ r.contentType # "xml" /\ (r.ok \/ r.contentType = "none") }

\* queries that overlap: a call starts and each of its pages arrives while
\* the other call awaits a page
NextPar ==
    \E c \in Calls :
        \/ QueryWithBaseStart(c, QueryBaseURL)
        \/ \E r \in ParResponses : FirstPage(c, r)
        \/ \E r \in ParResponses : NextPage(c, r)

SpecPar == Init /\ [][NextPar]_vars

\* use() calls that overlap with each other and with the start of a query
NextUse ==
    \E c \in Calls :
        \/ \E n \in {<<"A", "b">>, <<"C">>}, d \in {"CM", "QM"} :
              UseStart(c, ServerURL, n, d)
        \/ \E r \in Fetched(RootFixtures) : UseRootservices(c, r)
        \/ \E r \in Fetched(CatalogFixtures) : UseCatalog(c, r)
        \/ \E r \in Fetched(ProviderFixtures) : UseProvider(c, r)
        \/ QueryStart(c, "query", sym(ChangeRequest))

SpecUse == Init /\ [][NextUse]_vars

\* the most statements of a kind in a provider document SpecCF enumerates
MaxFactories == 2

\* the statements of provider documents about creation factories: two
\* factories of a service, their resource types, usages and creation URLs
FactoryStatements ==
    { st(sym(<<"s1">>), oslc("creationFactory"), sym(<<"cf1">>)),
      st(sym(<<"s1">>), oslc("creationFactory"), sym(<<"cf2">>)) }

FactoryTypeStatements ==
    { st(sym(<<"cf1">>), oslc("resourceType"), sym(ChangeRequest)),
      st(sym(<<"cf2">>), oslc("resourceType"), sym(ChangeRequest)) }

UsageStatements ==
    { st(sym(<<"cf1">>), oslc("usage"), sym(<<"oslc", "default">>)),
      st(sym(<<"cf2">>), oslc("usage"), sym(ChangeRequest)) }

CreationStatements ==
    { st(sym(<<"cf1">>), oslc("creation"), sym(FactoryURL)),
      st(sym(<<"cf2">>), oslc("creation"), sym(Factory2URL)) }

FactoryStores ==
    { <<st(sym(ProviderURL1), oslc("service"), sym(<<"s1">>))>>
        \o b \o c \o d \o e :
        b \in Stores(FactoryStatements, MaxFactories),
        c \in Stores(FactoryTypeStatements, MaxFactories),
        d \in Stores(UsageStatements, MaxFactories),
        e \in Stores(CreationStatements, MaxFactories) }

\* the solutions ?cfurl of the query of OSLCClient.getCreationFactory:
\* ?sp oslc:service ?s . ?s oslc:creationFactory ?cf .
\* ?cf oslc:usage <resourceType> . ?cf oslc:creation ?cfurl
cfurls(store, resourceType) ==
    { store[l].o.v : l \in { l \in 1..Len(store) :
        \E i, j, k \in 1..Len(store) :
            /\ store[i].p = oslc("service")
            /\ store[j] = st(store[i].o, oslc("creationFactory"), store[j].o)
            /\ store[k] = st(store[j].o, oslc("usage"), sym(resourceType.v))
            /\ store[l] = st(store[j].o, oslc("creation"), store[l].o) } }

\* OSLCClient.getCreationFactory(resourceType): results[0] is any of the
\* solutions
GetCreationFactory(c, resourceType, cfurl) ==
    /\ free(c)
    /\ LET me == [idleCall EXCEPT !.op = "getCreationFactory", !.pc = "done",
                                  !.rt = resourceType]
       IN  call' = [call EXCEPT ![c] =
             IF ~initialized(sp)
             THEN [me EXCEPT !.out = error("ServiceProvider not initialized", <<>>)]
             ELSE IF cfurls(sp.store, resourceType) = {}
             THEN [me EXCEPT !.out = error("No creation factory found for",
                                           resourceType.v)]
             ELSE IF cfurl \in cfurls(sp.store, resourceType)
             THEN [me EXCEPT !.ret = cfurl]
             ELSE call[c]]
    /\ UNCHANGED <<rootservices, spc, sp, base_url, succeeded, lk, net, res,
                   ownerMap>>

\* SpecCF: getCreationFactory on a client whose cached provider is any of
\* the provider documents, or unset
InitCF ==
    /\ sp \in {null} \cup { OSLCResource(ProviderURL1, s) : s \in FactoryStores }
    /\ rootservices = null /\ spc = null /\ base_url = <<>>
    /\ call = [c \in Calls |-> idleCall]
    /\ succeeded = (sp # null)
    /\ ownerMap = [u \in OwnerURLs |-> undefined]
    /\ lk = idleLookup
    /\ net = idleNet
    /\ res = idleRes

NextCF ==
    \E c \in Sequential, t \in {str(ChangeRequest), str(Task)},
       u \in {FactoryURL, Factory2URL} : GetCreationFactory(c, t, u)

SpecCF == InitCF /\ [][NextCF]_vars

\* getOwner calls, which may overlap
NextOwner ==
    \E c \in Calls :
        \/ \E u \in OwnerURLs : OwnerStart(c, u)
        \/ \E r \in OwnerResponses, l \in {undefined, UnrelatedURL} :
              OwnerSettled(c, r, l)

SpecOwner == Init /\ [][NextOwner]_vars


(***************************************************************************)
(* Properties of the discovery chain.                                      *)
(***************************************************************************)
DiscoverySteps == <<"root", "cat", "prov">>

\* the fetches of a use() call are its steps in order, each issued once, each
\* to the URL the document received before it yielded
stepsInOrder(c) ==
    LET log == call[c].log
        got == call[c].got
    IN  /\ Len(log) <= 3
        /\ \A i \in 1..Len(log) :
              log[i].k = DiscoverySteps[i] /\ log[i].m = "GET"
        /\ Len(log) >= 1 => log[1].u = RootURL
        /\ Len(log) >= 2 =>
              /\ Len(got) >= 1
              /\ log[2].u = serviceProviderCatalog(OSLCResource(log[1].u, got[1]),
                                serviceProviders(call[c].domain))
        /\ Len(log) >= 3 =>
              /\ Len(got) >= 2
              /\ log[3].u = serviceProvider(got[2], call[c].name)

hasPredicate(store, predicate) ==
    \E i \in 1..Len(store) : store[i].p = predicate

\* C5: if the fetched rootservices document has no statement for the catalog
\* predicate of the requested domain (CM, RM or QM), use() fails with the
\* domain-not-available error and fetches neither catalog nor provider.
C5_DomainNotAvailable ==
    \A c \in Calls :
        (/\ call[c].op = "use"
         /\ call[c].domain \in {"CM", "RM", "QM"}
         /\ Len(call[c].got) >= 1
         /\ ~hasPredicate(call[c].got[1], serviceProviders(call[c].domain))) =>
            /\ call[c].pc = "done"
            /\ call[c].out = error("No ServiceProviderCatalog for", <<call[c].domain>>)
            /\ Len(call[c].log) = 1

\* a use() for QM that received a rootservices document with statements, none
\* of them for the QM catalog predicate, and failed
C5_Witness ==
    \E c \in Calls :
        /\ call[c].op = "use" /\ call[c].domain = "QM"
        /\ Len(call[c].got) = 1 /\ Len(call[c].got[1]) > 0
        /\ call[c].out.err = "No ServiceProviderCatalog for"

\* C6: if the fetched catalog has no title matching the requested provider
\* title, use() fails with the provider-not-found error naming that title and
\* issues no provider fetch.
C6_ProviderNotFound ==
    \A c \in Calls :
        (/\ call[c].op = "use"
         /\ Len(call[c].got) >= 2
         /\ Len(titled(call[c].got[2], call[c].name)) = 0) =>
            /\ call[c].pc = "done"
            /\ call[c].out = error("not found in service catalog", call[c].name)
            /\ Len(call[c].log) = 2

\* a use() that received a catalog with titles, none equal to the requested
\* one, and failed
C6_Witness ==
    \E c \in Calls :
        /\ call[c].op = "use"
        /\ Len(call[c].got) = 2 /\ Len(call[c].got[2]) > 0
        /\ Len(titled(call[c].got[2], call[c].name)) = 0
        /\ call[c].out.err = "not found in service catalog"

(***************************************************************************)
(* Properties of the operations that depend on discovery.                  *)
(***************************************************************************)
DependentOps == {"query", "queryResources", "createResource"}

\* the endpoint an operation resolves from a provider
endpoint(provider, op, resourceType) ==
    IF op = "createResource"
    THEN getCreationFactory(provider, resourceType)
    ELSE Append(getQueryBase(provider, resourceType), "?oslc.paging=false")

\* C9: after a use() call has completed successfully, every later query,
\* queryResources and createResource call resolves its endpoint from the
\* cached ServiceProvider and issues no rootservices, catalog or provider
\* fetch.
C9_NoRediscovery ==
    \A c \in Calls :
        (succeeded /\ call[c].op \in DependentOps) =>
            /\ \A i \in 1..Len(call[c].log) :
                  call[c].log[i].k \notin {"root", "cat", "prov"}
            /\ Len(call[c].log) >= 1 =>
                  call[c].log[1].u = endpoint(sp, call[c].op, call[c].rt)

\* a query after a successful use() that has fetched two pages
C9_Witness ==
    \E c \in Calls :
        /\ succeeded
        /\ call[c].op = "queryResources" /\ call[c].pc = "done"
        /\ Len(call[c].log) = 2

\* C10: on a client on which no use() call has completed successfully, query,
\* queryResources and createResource fail with the 'ServiceProvider not
\* initialized' error and issue no HTTP request.
C10_NotInitialized ==
    \A c \in Calls :
        (~succeeded /\ call[c].op \in DependentOps) =>
            /\ call[c].pc = "done"
            /\ call[c].out = error("ServiceProvider not initialized", <<>>)
            /\ call[c].log = <<>>

\* a createResource that failed so on a client whose only use() failed after
\* its catalog had been fetched
C10_Witness ==
    \E c \in Calls :
        /\ ~succeeded /\ spc # null
        /\ call[c].op = "createResource"
        /\ call[c].out.err = "ServiceProvider not initialized"

\* the resource type a caller asks for denotes the type `aType` of a
\* capability: a node denotes itself; a string denotes the URI it spells
\* and, for a creation factory, every URI that ends with it
denotes(link, resourceType, aType) ==
    IF resourceType.t = "uri" THEN aType = resourceType
    ELSE \/ aType = sym(resourceType.v)
         \/ link = oslc("creationFactory") /\ endsWith(aType.v, resourceType.v)

\* the provider document declares a capability of the kind `link` for the
\* resource type: a node reached by oslc:service and `link` that has the
\* type as an oslc:resourceType
declares(provider, link, resourceType) ==
    \E i \in 1..Len(provider.store), j \in 1..Len(provider.store),
       k \in 1..Len(provider.store) :
        /\ provider.store[i] = st(sym(provider.uri), oslc("service"),
                                  provider.store[i].o)
        /\ provider.store[j] = st(provider.store[i].o, link, provider.store[j].o)
        /\ provider.store[k] = st(provider.store[j].o, oslc("resourceType"),
                                  provider.store[k].o)
        /\ denotes(link, resourceType, provider.store[k].o)

capabilityOf(op) ==
    IF op = "createResource" THEN oslc("creationFactory")
    ELSE oslc("queryCapability")

capabilityError(op) ==
    IF op = "createResource" THEN "No creation factory found for"
    ELSE "No query capability found for"

statements(store) == {store[i] : i \in 1..Len(store)}

FirstPageURL == Append(QueryBaseURL, "?oslc.paging=false")

\* results of one, two and three pages, each page with the URL it is served
\* at: the first page carries its link on the query base, a later page on
\* its own URL
PageChains ==
    { << [u |-> FirstPageURL,
          doc |-> << st(sym(QueryBaseURL), rdfs("member"), sym(<<"m1">>)) >>] >>,
      << [u |-> FirstPageURL,
          doc |-> << st(sym(QueryBaseURL), oslc("nextPage"), sym(Page2URL)),
                     st(sym(QueryBaseURL), rdfs("member"), sym(<<"m1">>)) >>],
         [u |-> Page2URL,
          doc |-> << st(sym(Page2URL), rdfs("member"), sym(<<"m2">>)) >>] >>,
      << [u |-> FirstPageURL,
          doc |-> << st(sym(QueryBaseURL), oslc("nextPage"), sym(Page2URL)),
                     st(sym(QueryBaseURL), rdfs("member"), sym(<<"m1">>)) >>],
         [u |-> Page2URL,
          doc |-> << st(sym(QueryBaseURL), rdfs("member"), sym(<<"m2">>)),
                     st(sym(Page2URL), oslc("nextPage"), sym(Page3URL)) >>],
         [u |-> Page3URL,
          doc |-> << st(sym(QueryBaseURL), rdfs("member"), sym(<<"m1">>)),
                     st(sym(QueryBaseURL), rdfs("member"), sym(<<"m3">>)) >>] >> }

\* every request of the call that has been answered was answered with the
\* page the chain serves at the request's URL
servedBy(c, chain) ==
    \A i \in 1..Len(call[c].got) :
        \E j \in 1..Len(chain) :
            /\ chain[j].u = call[c].log[i].u
            /\ chain[j].doc = call[c].got[i]

\* C12: for a query whose result is a chain of N pages, each linked from
\* the subject of the page before it, queryWithBase issues exactly N page
\* fetches, one after the other in link order, and returns a graph that
\* holds the union of the statements of the N pages.
C12_AllPagesInOrder ==
    \A c \in Calls, chain \in PageChains :
        (call[c].op \in {"query", "queryResources"} /\ servedBy(c, chain)) =>
            /\ Len(call[c].log) <= Len(chain)
            /\ Len(call[c].log) <= Len(call[c].got) + 1
            /\ \A i \in 1..Len(call[c].log) :
                  /\ call[c].log[i].u = chain[i].u
                  /\ call[c].log[i].m = "GET"
            /\ (call[c].pc = "done" /\ call[c].out = noError) =>
                  /\ Len(call[c].log) = Len(chain)
                  /\ statements(call[c].store) =
                        UNION {statements(chain[j].doc) : j \in 1..Len(chain)}

\* a query has returned after the three pages of the longest chain
C12_Witness ==
    \E c \in Calls, chain \in PageChains :
        /\ call[c].op = "query" /\ call[c].pc = "done" /\ call[c].out = noError
        /\ servedBy(c, chain)
        /\ Len(chain) = 3 /\ Len(call[c].got) = 3

\* what a resource exposes: the predicate and value of every property that
\* getProperties() lists, each confirmed by get()
exposed(resource) ==
    LET props == getProperties(resource)
    IN  {<<p, props[p]>> : p \in {q \in DOMAIN props : get(resource, q) = props[q]}}

\* the properties the statements of a graph give to a subject
propertiesOf(kb, subject) ==
    LET about == statementsMatching(kb, subject, Undef, Undef)
    IN  {<<about[i].p, propertyValue(each(kb, subject, about[i].p))>> :
            i \in 1..Len(about)}

\* C13: for every member URI M listed by a member statement of the
\* accumulated query graph, queryResources returns a Resource for M that
\* exposes (through get and getProperties) exactly the statements of the
\* graph whose subject is M, for every form of member URI, also one that
\* carries a query string.
C13_MemberStatementsExposed ==
    \A c \in Calls :
        (/\ call[c].op = "queryResources"
         /\ call[c].pc = "done" /\ call[c].out = noError) =>
            LET kb == call[c].store
                members == statementsMatching(kb, Undef, rdfs("member"), Undef)
            IN  /\ Len(call[c].resources) = Len(members)
                /\ \A i \in 1..Len(members) :
                      exposed(call[c].resources[i]) =
                          propertiesOf(kb, members[i].o)

\* C13, for the members whose URI has no query string
C13_PlainMembersExposed ==
    \A c \in Calls :
        (/\ call[c].op = "queryResources"
         /\ call[c].pc = "done" /\ call[c].out = noError) =>
            LET kb == call[c].store
                members == statementsMatching(kb, Undef, rdfs("member"), Undef)
            IN  /\ Len(call[c].resources) = Len(members)
                /\ \A i \in 1..Len(members) :
                      canonical(members[i].o.v) = members[i].o.v =>
                          exposed(call[c].resources[i]) =
                              propertiesOf(kb, members[i].o)

(***************************************************************************)
(* Properties of create, update and delete.                                *)
(***************************************************************************)
\* C23: createResource, after a successful use(), issues exactly one POST
\* of the caller's serialized triples to the resolved creation-factory URL
\* and, only if that POST is answered with status 200 or 201, then one read
\* of the location of the response; it returns the result of that read, and
\* on any other outcome of the POST it throws without issuing the read.
C23_PostThenReadLocation ==
    \A c \in Calls :
        (call[c].op = "createResource" /\ call[c].log # <<>>) =>
            LET me == call[c]
                posted == Len(me.statuses) >= 1
            IN  /\ succeeded
                /\ me.log[1] = sending("POST", getCreationFactory(sp, me.rt),
                                       "create", serialize(me.arg.store), noHeaders)
                /\ Len(me.log) <= 2
                /\ Len(me.log) = 2 <=> (posted /\ me.statuses[1] \in {200, 201})
                /\ Len(me.log) = 2 => me.log[2] = request("GET", LocationURL, "read")
                /\ (posted /\ me.statuses[1] \notin {200, 201}) =>
                      me.pc = "done" /\ me.out.err \in {"error", "Failed to create resource"}
                /\ (me.pc = "done" /\ me.out = noError) =>
                      /\ Len(me.log) = 2 /\ Len(me.got) = 1
                      /\ me.resources \in {<<>>, <<OSLCResource(LocationURL, me.got[1])>>}

\* a createResource has returned the resource read from the location, with
\* the identifier the server assigned
C23_Witness ==
    \E c \in Calls :
        /\ call[c].op = "createResource" /\ call[c].pc = "done"
        /\ call[c].statuses = <<201>>
        /\ Len(call[c].resources) = 1
        /\ get(call[c].resources[1], dcterms("identifier")) = single(<<"1001">>)
        /\ call[c].arg.uri = UnrelatedURL

\* the creation factories of the provider whose creation URL is `url`
factoriesAt(provider, url) ==
    SelectSeq(capabilities(provider, oslc("creationFactory")),
              LAMBDA cf : value(the(provider.store, cf, oslc("creation"))) = url)

\* the resource types a creation factory declares
typesOf(provider, cf) == each(provider.store, cf, oslc("resourceType"))

\* the type T itself: the node, or the URI a string spells
itself(resourceType) == sym(resourceType.v)

\* C24: for every provider document and every resource type T, given as a
\* string or as a node, createResource(T, r) POSTs only to the creation URL
\* of a creation factory that declares T itself as one of its resource
\* types, never to a factory that declares only other resource types.
C24_PostsToFactoryOfType ==
    \A c \in Calls :
        (call[c].op = "createResource" /\ call[c].log # <<>>) =>
            \E i \in 1..Len(factoriesAt(sp, call[c].log[1].u)) :
                LET types == typesOf(sp, factoriesAt(sp, call[c].log[1].u)[i])
                IN  \E j \in 1..Len(types) : types[j] = itself(call[c].rt)

\* C24 as the code has it: for T given as a node the factory declares T;
\* for T given as a string the factory declares a type whose URI ends with
\* T, and it is the first factory of the provider that does.
C24_PostsToFactoryOfSuffix ==
    \A c \in Calls :
        (call[c].op = "createResource" /\ call[c].log # <<>>) =>
            LET all == capabilities(sp, oslc("creationFactory"))
                fits(cf) ==
                    \E j \in 1..Len(typesOf(sp, cf)) :
                        IF call[c].rt.t = "uri"
                        THEN typesOf(sp, cf)[j] = call[c].rt
                        ELSE endsWith(typesOf(sp, cf)[j].v, call[c].rt.v)
            IN  \E i \in 1..Len(all) :
                    /\ fits(all[i])
                    /\ \A h \in 1..(i - 1) : ~fits(all[h])
                    /\ value(the(sp.store, all[i], oslc("creation"))) =
                          call[c].log[1].u

\* a createResource for the string 'Task' has POSTed to the factory for
\* subtasks of a provider that has no factory for tasks
C24_Witness ==
    \E c \in Calls :
        /\ call[c].op = "createResource" /\ call[c].rt = str(<<"Task">>)
        /\ call[c].log # <<>> /\ call[c].log[1].u = Factory2URL
        /\ ~declares(sp, oslc("creationFactory"), sym(Task))

\* C25: putResource sends exactly one PUT, to the canonical URI of the
\* resource, and the PUT carries an If-Match header exactly when the caller
\* passed a token, with that token as its value; the ETag stored on the
\* resource is not sent unless it is passed.
C25_OnePutIfMatchOnlyIfPassed ==
    \A c \in Calls :
        call[c].op = "putResource" =>
            /\ Len(call[c].log) = 1
            /\ call[c].log[1].m = "PUT"
            /\ call[c].log[1].u = canonical(call[c].arg.queryURI)
            /\ call[c].log[1].body = call[c].arg.store
            /\ call[c].log[1].headers.ifMatch =
                  (IF call[c].eTag \in {"none", ""} THEN "none" ELSE call[c].eTag)

\* a resource that holds an ETag has been PUT without a token, and the call
\* has ended
C25_Witness ==
    \E c \in Calls :
        /\ call[c].op = "putResource" /\ call[c].pc = "done"
        /\ call[c].arg.etag = "etag1" /\ call[c].eTag = "none"
        /\ call[c].log[1].headers.ifMatch = "none"

\* another token than the stored one has been sent
C25_OtherToken ==
    \E c \in Calls :
        /\ call[c].op = "putResource" /\ call[c].pc = "done"
        /\ call[c].arg.etag = "etag1" /\ call[c].eTag = "etag2"

\* C27: deleteResource sends one DELETE whose CSRF-prevention header is
\* the session id when the client's cookie store holds a session cookie for
\* the URL, and the sentinel '1' otherwise.
C27_CsrfIsSessionIdOrSentinel ==
    \A c \in Calls :
        call[c].op = "deleteResource" =>
            LET mine == { i \in 1..Len(call[c].jar) :
                            /\ call[c].jar[i].host = call[c].url[1]
                            /\ call[c].jar[i].key = "JSESSIONID" }
                csrf == call[c].log[1].headers.csrf
            IN  /\ Len(call[c].log) = 1
                /\ call[c].log[1].m = "DELETE"
                /\ call[c].log[1].u = canonical(call[c].arg.queryURI)
                /\ IF mine = {} THEN csrf = "1"
                   ELSE \E i \in mine : csrf = call[c].jar[i].value

\* a DELETE has gone out with the session id of the server, from a jar
\* that also holds a session cookie of another host, and has settled
C27_Witness ==
    \E c \in Calls :
        /\ call[c].op = "deleteResource" /\ call[c].pc = "done"
        /\ call[c].log[1].headers.csrf = "s1"
        /\ \E i \in 1..Len(call[c].jar) : call[c].jar[i].host = "other"

\* a DELETE has gone out with the sentinel although the jar holds a session
\* cookie, of another host
C27_Sentinel ==
    \E c \in Calls :
        /\ call[c].op = "deleteResource" /\ call[c].pc = "done"
        /\ call[c].log[1].headers.csrf = "1"
        /\ call[c].jar # <<>>

success(status) == status \in 200..299

\* C26: putResource raises an update error exactly when the status of the
\* PUT is not a success status: every non-success status, 412 included,
\* raises an error that carries the status, and every success (2xx) status
\* returns the resource.
C26_UpdateErrorIffNotSuccess ==
    \A c \in Calls :
        (call[c].op = "putResource" /\ call[c].pc = "done") =>
            LET status == call[c].statuses[1]
            IN  IF success(status)
                THEN call[c].out = noError /\ call[c].resources = <<call[c].arg>>
                ELSE /\ call[c].out.err # "none"
                     /\ status # 0 => call[c].out.arg = <<ToString(status)>>

\* the part of C26 the code has: 200 and 201 return the resource, every
\* status that is no success status raises an error with the status
C26_UpdateErrorIfNotSuccess ==
    \A c \in Calls :
        (call[c].op = "putResource" /\ call[c].pc = "done") =>
            LET status == call[c].statuses[1]
            IN  /\ isUpdated(status) =>
                      call[c].out = noError /\ call[c].resources = <<call[c].arg>>
                /\ ~success(status) =>
                      /\ call[c].out.err # "none"
                      /\ status # 0 => call[c].out.arg = <<ToString(status)>>

\* C28: every operation throws whenever the final response to one of its
\* requests has a status that is no 2xx status; no response with such a
\* status is turned into a normal result.
C28_NonSuccessThrows ==
    \A c \in Calls :
        (call[c].pc = "done" /\ call[c].out = noError) =>
            \A i \in 1..Len(call[c].statuses) : success(call[c].statuses[i])

\* the part of C28 the code has: the statuses the transport rejects, and
\* the statuses of the PUT, of the DELETE and of the first page of a query
C28_CheckedStatusesThrow ==
    \A c \in Calls :
        (call[c].pc = "done" /\ call[c].out = noError) =>
            /\ \A i \in 1..Len(call[c].statuses) : accepted(call[c].statuses[i])
            /\ call[c].op \in {"putResource", "deleteResource", "queryWithBase"}
                  => success(call[c].statuses[1])

\* a read has returned a resource for a response of status 304
C28_ReadReturned ==
    \E c \in Calls :
        /\ call[c].op = "getResource" /\ call[c].pc = "done"
        /\ call[c].statuses = <<304>> /\ call[c].resources # <<>>

\* the statements the parser has added for the first n responses of a
\* query, whether it threw or not
RECURSIVE accumulated(_, _)
accumulated(responses, n) ==
    IF n = 0 THEN <<>>
    ELSE parse(accumulated(responses, n - 1),
               IF responses[1].contentType = "rdf" THEN responses[n].doc
               ELSE <<>>)

\* C29: when the body of an accepted read or query response cannot be
\* parsed as a graph, getResource and queryWithBase do not raise:
\* getResource returns a resource, and queryWithBase the graph, with the
\* statements parsed before the failure, and a query goes on with the
\* statements accumulated so far.
C29_ParseFailureNotRaised ==
    \A c \in Calls :
        /\ ( /\ call[c].op = "getResource" /\ call[c].pc = "done"
             /\ accepted(call[c].responses[1].status)
             /\ call[c].responses[1].contentType = "rdf"
             /\ ~call[c].responses[1].ok ) =>
                /\ call[c].out = noError
                /\ Len(call[c].resources) = 1
                /\ call[c].resources[1].uri = canonical(call[c].url)
                /\ call[c].resources[1].store = call[c].responses[1].doc
        /\ ( /\ call[c].op = "queryWithBase" /\ call[c].responses # <<>>
             /\ call[c].responses[1].status = 200
             /\ \A i \in 1..Len(call[c].responses) :
                    accepted(call[c].responses[i].status)
             /\ \E i \in 1..Len(call[c].responses) : ~call[c].responses[i].ok ) =>
                LET link == value(the(call[c].store, sym(call[c].key),
                                      oslc("nextPage")))
                IN  /\ call[c].out = noError
                    /\ call[c].store =
                          accumulated(call[c].responses, Len(call[c].responses))
                    /\ call[c].pc = "done" =>
                          /\ link = undefined
                          /\ Len(call[c].log) = Len(call[c].responses)
                    /\ call[c].pc = "page" =>
                          /\ Len(call[c].log) = Len(call[c].responses) + 1
                          /\ call[c].log[Len(call[c].log)].u = call[c].key

\* a query has returned the statements of two pages, the first of which
\* broke off after its link to the second
C29_Witness ==
    \E c \in Calls :
        /\ call[c].op = "queryWithBase" /\ call[c].pc = "done"
        /\ Len(call[c].responses) = 2
        /\ ~call[c].responses[1].ok /\ call[c].responses[2].ok
        /\ Len(call[c].store) = 2

\* a read has returned a resource with the statement parsed before the
\* failure
C29_ReadPartial ==
    \E c \in Calls :
        /\ call[c].op = "getResource" /\ call[c].pc = "done"
        /\ ~call[c].responses[1].ok /\ call[c].resources # <<>>
        /\ Len(call[c].resources[1].store) = 1

\* C30: when query calls on one client overlap in time, under every
\* interleaving of their page fetches each call returns its own graph, with
\* only statements of the pages fetched for that call: the graph of a call
\* is what its own pages add up to.
C30_OwnGraphOwnPages ==
    \A c \in Calls :
        (call[c].op = "queryWithBase" /\ call[c].out = noError) =>
            /\ call[c].store =
                  accumulated(call[c].responses, Len(call[c].responses))
            /\ \A i \in 1..Len(call[c].store) :
                  \E j \in 1..Len(call[c].responses) :
                      \E k \in 1..Len(call[c].responses[j].doc) :
                          call[c].responses[j].doc[k] = call[c].store[i]

\* two queries await a page at the same time, one after two pages and the
\* other after one, and the first holds a statement the second does not
C30_Witness ==
    /\ call[1].op = "queryWithBase" /\ call[1].pc = "page"
    /\ call[2].op = "queryWithBase" /\ call[2].pc = "page"
    /\ Len(call[1].responses) = 2 /\ Len(call[2].responses) = 1
    /\ call[2].store # <<>>
    /\ \E i \in 1..Len(call[1].store) :
          \A j \in 1..Len(call[2].store) : call[2].store[j] # call[1].store[i]

\* C31: once a getOwner(url) call has obtained a name and returned, the
\* cache entry for url is never removed or changed for the life of the
\* client, and every getOwner(url) call started afterwards returns that
\* name without a request.
C31_CacheEntryNeverChanges ==
    [][\A u \in OwnerURLs :
          ownerMap[u] # undefined => ownerMap'[u] = ownerMap[u]]_vars

\* the part of C31 the code has: an entry is never removed, and a call that
\* starts when the URL is cached returns the cached name without a request
C31_HitReturnsCachedNoRequest ==
    [][\A c \in Calls, u \in OwnerURLs :
          /\ ownerMap[u] # undefined => ownerMap'[u] # undefined
          /\ ( /\ ownerMap[u] # undefined /\ call'[c] # call[c]
               /\ call'[c].op = "getOwner" /\ call'[c].url = u
               /\ call'[c].responses = <<>> ) =>
                   /\ call'[c].pc = "done" /\ call'[c].log = <<>>
                   /\ call'[c].ret = ownerMap[u]]_vars

\* a call has returned a name from the cache
C31_Hit ==
    \E c \in Calls :
        /\ call[c].op = "getOwner" /\ call[c].pc = "done"
        /\ call[c].log = <<>> /\ call[c].ret = <<"A", "b">>

\* the path of a URL: its segments after the host, without the query string
pathOf(url) == SubSeq(canonical(url), 2, Len(canonical(url)))

\* the form login POST to a challenge of the caller's request
formLogin ==
    /\ net.handled.posted /\ net.handled.next.kind = "login"
    /\ net.handled.req.kind = "orig"

\* C32: on a form-auth challenge the credential POST is sent to the URL
\* obtained from the URL of the original request by replacing the final
\* segment of its path with the login endpoint, for paths of every depth.
C32_LoginReplacesFinalSegment ==
    (formLogin /\ Len(pathOf(net.handled.req.url)) >= 1) =>
        LET path == pathOf(net.handled.req.url)
        IN  pathOf(net.handled.next.url) =
              SubSeq(path, 1, Len(path) - 1) \o <<"j_security_check">>

\* C32 as the code has it: the POST goes to the login endpoint under the
\* first segment of the path of the original request (directly under the
\* origin when the path is empty), with the origin and the query string of
\* the original request.
C32_LoginUnderFirstSegment ==
    formLogin =>
        LET path == pathOf(net.handled.req.url)
            login == net.handled.next.url
        IN  /\ login[1] = net.handled.req.url[1]
            /\ pathOf(login) = (IF path = <<>> THEN <<"j_security_check">>
                                ELSE <<path[1], "j_security_check">>)
            /\ \A q \in QuerySegments :
                  (\E i \in 1..Len(login) : login[i] = q) <=>
                  (\E i \in 1..Len(net.handled.req.url) :
                        net.handled.req.url[i] = q)

\* the login POST for a request three segments deep has gone to the
\* endpoint under the first segment
C32_Witness ==
    /\ formLogin
    /\ net.handled.req.url = <<"srv", "ccm", "oslc", "rootservices">>
    /\ net.handled.next.url = <<"srv", "ccm", "j_security_check">>

\* a visit of the two nested loops over a provider store: the store holds
\* (provider, oslc:service, s) at i and (s, oslc:queryCapability, q) at j
visit(store, i, j) ==
    /\ store[i].s = sym(ProviderURL1) /\ store[i].p = oslc("service")
    /\ store[j].s = store[i].o /\ store[j].p = oslc("queryCapability")

\* the visit declares the resource type
matching(store, i, j, T) ==
    /\ visit(store, i, j)
    /\ \E k \in 1..Len(store) :
          store[k] = st(store[j].o, oslc("resourceType"), T)

\* the visit comes before the other: services in the store's order, and
\* the capabilities of a service in the store's order
before(i, j, i2, j2) == i < i2 \/ (i = i2 /\ j < j2)

C34_ProviderAssignedLast ==
    [][sp' # sp =>
          \E c \in Calls :
              /\ call[c].op = "use" /\ call[c].pc = "prov"
              /\ call'[c].pc = "done" /\ call'[c].out = noError
              /\ Len(call'[c].log) = 3 /\ Len(call'[c].got) = 3
              /\ sp' = OSLCResource(call[c].url, call'[c].got[3])]_vars

\* a use() call has failed after its catalog fetch and a query has started
\* on the provider that an earlier use() call cached
C34_Witness ==
    \E c \in Calls, q \in Calls :
        /\ call[c].op = "use" /\ call[c].pc = "done"
        /\ call[c].out.err # "none" /\ Len(call[c].log) >= 2
        /\ call[q].op = "query" /\ call[q].log # <<>>
        /\ sp # null /\ spc # null /\ spc.store # <<>>

\* the cached catalog is one the cached rootservices document refers to
catalogFromRootservices ==
    /\ rootservices # null
    /\ \E d \in Domains :
          LET spcURL == serviceProviderCatalog(rootservices, serviceProviders(d))
          IN  spcURL # undefined /\ canonical(spcURL) = spc.uri

\* the cached provider is one the cached catalog lists
providerFromCatalog ==
    /\ spc # null
    /\ \E n \in ProviderNames :
          LET spURL == serviceProvider(spc.store, n)
          IN  spURL # undefined /\ canonical(spURL) = sp.uri

\* C35: whenever no use() call is in flight, after any sequence of
\* successful, failed or overlapping use() calls, the cached rootservices
\* document, catalog and provider (when set) stem from the same use() call:
\* the provider was resolved from the cached catalog, and the catalog from
\* the cached rootservices document.
C35_CachedDocumentsOfOneCall ==
    (\A c \in Calls : call[c].op = "use" => call[c].pc = "done") =>
        /\ spc # null => catalogFromRootservices
        /\ sp # null => providerFromCatalog

\* C36: use() with a domain tag other than 'CM', 'RM' or 'QM' fails with
\* the domain-not-available error and issues no fetch after the
\* rootservices fetch: the object of an unrelated statement of the
\* rootservices document is never taken as the catalog URL.
C36_UnknownDomainFails ==
    \A c \in Calls :
        (call[c].op = "use" /\ call[c].domain \notin {"CM", "RM", "QM"}) =>
            /\ Len(call[c].log) <= 1
            /\ call[c].got # <<>> =>
                  /\ call[c].pc = "done"
                  /\ call[c].out = error("No ServiceProviderCatalog for",
                                         <<call[c].domain>>)

\* the part of C36 the code has: with an unknown domain tag and a
\* rootservices document without a statement about its own URI, use() fails
\* with the domain-not-available error after the one fetch
C36_UnknownDomainFailsOnEmpty ==
    \A c \in Calls :
        ( /\ call[c].op = "use" /\ call[c].domain \notin {"CM", "RM", "QM"}
          /\ call[c].got # <<>> /\ call[c].got[1] = <<>> ) =>
            /\ Len(call[c].log) = 1 /\ call[c].pc = "done"
            /\ call[c].out = error("No ServiceProviderCatalog for",
                                   <<call[c].domain>>)

\* C37: queryWithBase terminates for every finite set of page documents
\* the server can return, pages whose next-page links form a cycle or
\* point back to the page itself included: within one query no page URL
\* is fetched more than once.
C37_NoPageFetchedTwice ==
    \A c \in Calls :
        call[c].op = "queryWithBase" =>
            \A i, j \in 1..Len(call[c].log) :
                i # j => call[c].log[i].u # call[c].log[j].u

\* the part of C37 the code has: a query whose pages link onwards without
\* a cycle fetches no URL twice
C37_NoRefetchWithoutCycle ==
    \A c \in Calls :
        ( /\ call[c].op = "queryWithBase"
          /\ \A i \in 1..Len(call[c].responses) :
                call[c].responses[i].doc \notin CycleFixtures ) =>
            \A i, j \in 1..Len(call[c].log) :
                i # j => call[c].log[i].u # call[c].log[j].u

\* C38: the URI serviceProvider(T) returns, which use() fetches as the
\* provider, is always a service provider the catalog lists: never the
\* catalog's own URI or another subject of the catalog document that
\* merely carries a dcterms:title equal to T.
C38_ReturnsListedProvider ==
    (lk.pc = "done" /\ lk.title # <<>> /\ lk.result # undefined) =>
        lk.result \in Providers

\* the part of C38 the code has: the URI returned is the subject of a
\* dcterms:title statement of the catalog document
C38_ReturnsTitledSubject ==
    (lk.pc = "done" /\ lk.title # <<>> /\ lk.result # undefined) =>
        \E i \in 1..Len(lk.store) :
            /\ lk.store[i].s = sym(lk.result)
            /\ lk.store[i].p = dcterms("title")


(***************************************************************************)
(* SpecRes: the calls on one OSLCResource, from every store of up to       *)
(* MaxResStmts statements.                                                 *)
(***************************************************************************)
\* the URIs a resource is constructed with
ResourceURIs == {LocationURL, MemberQueryURL}

Properties == {dcterms("title"), oslc("shortTitle")}

\* the nodes a property is set to: a plain literal, an empty literal, and a
\* named node whose URI reads like the literal
Values == {literal(<<"A">>, xsdString), literal(<<>>, xsdString), sym(<<"A">>)}

\* the statements a resource's store may hold at construction: about its
\* subject, and about another subject
ResStatements(uri) ==
    {st(sym(uri), p, o) : p \in Properties, o \in Values}
    \cup {st(sym(UnrelatedURL), dcterms("title"), literal(<<"A">>, xsdString))}

\* the nodes of the arrays a property is set to
ArrayValues == {literal(<<"A">>, xsdString), sym(<<"A">>)}

\* the values set() is called with: undefined, one node, an array of nodes
\* (empty, with one node, with a node twice, ...)
SetValues ==
    {absent} \cup {single(v) : v \in Values}
    \cup {array(q) : q \in SeqsUpTo(ArrayValues, MaxValues)}

called(op, p, v, ret, url) ==
    [op |-> op, p |-> p, v |-> v, ret |-> ret, url |-> url]

InitRes ==
    /\ res \in UNION {
          {[r |-> OSLCResource(u, s),
            uri0 |-> getURI(OSLCResource(u, s)),
            last |-> noCall] :
                s \in Stores(ResStatements(canonical(u)), MaxResStmts)} :
          u \in ResourceURIs}
    /\ clientIdle
    /\ lk = idleLookup
    /\ net = idleNet

\* resource.set(property, val)
Set(property, val) ==
    /\ res' = [res EXCEPT !.r = set(res.r, property, val),
                          !.last = called("set", property, val, absent, <<>>)]
    /\ UNCHANGED <<clientVars, lk, net>>

\* resource.get(property)
Get(property) ==
    /\ res' = [res EXCEPT !.last = called("get", property, absent,
                                          get(res.r, property), <<>>)]
    /\ UNCHANGED <<clientVars, lk, net>>

\* resource.getTitle()
GetTitle ==
    /\ res' = [res EXCEPT !.last = called("getTitle", Undef, absent,
                                          getTitle(res.r), <<>>)]
    /\ UNCHANGED <<clientVars, lk, net>>

\* resource.setTitle(text)
SetTitle(text) ==
    /\ res' = [res EXCEPT !.r = setTitle(res.r, text),
                          !.last = called("setTitle", Undef,
                                          single(literal(text, xsdString)),
                                          absent, <<>>)]
    /\ UNCHANGED <<clientVars, lk, net>>

\* resource.getLinkTypes() and resource.getProperties()
Reflect(op) ==
    /\ op \in {"getLinkTypes", "getProperties"}
    /\ res' = [res EXCEPT !.last = called(op, Undef, absent,
                    IF op = "getLinkTypes"
                    THEN [k |-> "set", v |-> getLinkTypes(res.r)]
                    ELSE [k |-> "object", v |-> getProperties(res.r)], <<>>)]
    /\ UNCHANGED <<clientVars, lk, net>>

\* the caller's resource after createResource(type, resource) has read the
\* created resource from `location`: the created one is a new object
created_relocated(resource, location) == OSLCResource(location, resource.store)

created(resource, location) == resource

\* the resource is passed to putResource, createResource or deleteResource,
\* which sends its request (put and delete to resource.getURI()) and ends
PassedTo(op) ==
    /\ op \in {"putResource", "createResource", "deleteResource"}
    /\ res' = [res EXCEPT
                  !.r = IF op = "createResource"
                        THEN created(@, Page2URL) ELSE @,
                  !.last = called(op, Undef, absent, absent,
                                  IF op = "createResource" THEN FactoryURL
                                  ELSE getURI(res.r))]
    /\ UNCHANGED <<clientVars, lk, net>>

NextRes ==
    \/ \E p \in Properties, v \in SetValues : Set(p, v)
    \/ \E p \in Properties : Get(p)
    \/ GetTitle
    \/ SetTitle(<<"C">>)
    \/ \E op \in {"getLinkTypes", "getProperties"} : Reflect(op)
    \/ \E op \in {"putResource", "createResource", "deleteResource"} : PassedTo(op)

SpecRes == InitRes /\ [][NextRes]_vars

\* the statements the store holds for the resource's subject and a property
held(property) ==
    statementsMatching(res.r.store, sym(res.r.uri), property, Undef)

values(nodes) == [i \in 1..Len(nodes) |-> value(nodes[i])]

\* the nodes of a sequence without repetition, in the order of their first
\* occurrence
distinct(nodes) ==
    SelectSeq([i \in 1..Len(nodes) |->
                  IF \E j \in 1..(i - 1) : nodes[j] = nodes[i]
                  THEN Undef ELSE nodes[i]],
              LAMBDA n : n # Undef)

\* C14: after R.set(P, V) with a single value V, whatever values P had
\* before, R.get(P) returns exactly V (its value) as a single value, and
\* none of the values P had before remains.
C14_SetSingleRoundTrip ==
    (res.last.op = "set" /\ res.last.v.k = "single") =>
        /\ get(res.r, res.last.p) = single(value(res.last.v.v[1]))
        /\ held(res.last.p) =
              <<st(sym(res.r.uri), res.last.p, res.last.v.v[1])>>

\* a property has been set to the empty literal on a store that holds
\* statements of another property and of another subject
C14_Witness ==
    /\ res.last.op = "set" /\ res.last.v = single(literal(<<>>, xsdString))
    /\ Len(res.r.store) = 3
    /\ Len(statementsMatching(res.r.store, sym(res.r.uri), Undef, Undef)) = 2

\* C15: after R.set(P, [V1..Vn]), R.get(P) returns exactly the sequence
\* V1..Vn (their values) in that order, and repeated calls of get on the
\* unchanged store return the same order.
C15_SetArrayRoundTrip ==
    /\ (res.last.op = "set" /\ res.last.v.k = "array") =>
          get(res.r, res.last.p) = array(values(res.last.v.v))
    /\ res.last.op = "get" => res.last.ret = get(res.r, res.last.p)

\* C15 as the code has it: get returns the values of the distinct nodes
\* among V1..Vn in the order of their first occurrence, as an array when
\* they are two or more, as a single value when there is one, and undefined
\* when there is none; a repeated get returns the same.
C15_SetArrayDistinctInOrder ==
    /\ (res.last.op = "set" /\ res.last.v.k = "array") =>
          LET nodes == distinct(res.last.v.v)
          IN  /\ held(res.last.p) =
                    [i \in 1..Len(nodes) |->
                        st(sym(res.r.uri), res.last.p, nodes[i])]
              /\ get(res.r, res.last.p) =
                    CASE Len(nodes) = 0 -> absent
                      [] Len(nodes) = 1 -> single(value(nodes[1]))
                      [] OTHER -> array(values(nodes))
    /\ res.last.op = "get" => res.last.ret = get(res.r, res.last.p)

\* a property that had a value has been set to an array of two nodes of
\* the same value, the named node first
C15_Witness ==
    /\ res.last.op = "set"
    /\ res.last.v = array(<<sym(<<"A">>), literal(<<"A">>, xsdString)>>)
    /\ get(res.r, res.last.p) = array(<< <<"A">>, <<"A">> >>)
    /\ Len(res.r.store) = 4

\* C16: after R.set(P, absent), whatever values P had before, R.get(P)
\* returns absent (undefined) and the store holds no statement with R's
\* subject and predicate P.
C16_SetAbsentRemoves ==
    (res.last.op = "set" /\ res.last.v.k = "undefined") =>
        /\ get(res.r, res.last.p) = absent
        /\ held(res.last.p) = <<>>

\* a property has been removed from a store that keeps statements of
\* another property and of another subject
C16_Witness ==
    /\ res.last.op = "set" /\ res.last.v = absent
    /\ Len(res.r.store) = 2
    /\ Len(statementsMatching(res.r.store, sym(res.r.uri), Undef, Undef)) = 1

\* C17: in every reachable state of a Resource, get(P) for a property P
\* without a statement about the Resource's subject returns undefined (it
\* raises no error), and get never modifies the store.
C17_GetOfMissingProperty ==
    /\ [](\A p \in Properties :
            held(p) = <<>> => get(res.r, p) = absent)
    /\ [](res.last.op = "get" =>
            /\ res.last.ret.k \in {"undefined", "single", "array"}
            /\ held(res.last.p) = <<>> => res.last.ret = absent)
    /\ [][res'.last.op \in {"get", "getTitle"} => res'.r = res.r]_vars

\* get has returned undefined for a property that another subject of the
\* store has
C17_Witness ==
    /\ res.last.op = "get" /\ res.last.ret = absent
    /\ Len(statementsMatching(res.r.store, sym(UnrelatedURL), res.last.p, Undef)) = 1

\* C18: the canonical URI of a Resource is fixed at construction: after any
\* sequence of get, set, accessor, getLinkTypes and getProperties calls and
\* after it was passed to putResource, createResource or deleteResource,
\* getURI() returns the value it returned right after construction.
C18_UriFixed == res.r # null => getURI(res.r) = res.uri0

\* a resource constructed from a URI with a query string, whose title has
\* been set, has been passed to createResource
C18_Witness ==
    /\ res.last.op = "createResource"
    /\ res.r.queryURI # res.uri0
    /\ held(dcterms("title")) = <<st(sym(res.uri0), dcterms("title"),
                                     literal(<<"C">>, xsdString))>>


(***************************************************************************)
(* SpecAuth: the response interceptor.  axios runs it on every response    *)
(* that passes the request's validateStatus, also on the responses to the  *)
(* requests the interceptor itself issues through this.client.             *)
(***************************************************************************)
\* a response: its status, whether it carries the header
\* x-com-ibm-team-repository-web-auth-msg: authrequired (marker), and its
\* www-authenticate header: none, a jauth realm without token_uri ("realm"),
\* or one with it ("realm+uri")
ServerResponses ==
    [status : {200, 302, 401, 404}, marker : BOOLEAN,
     www : {"none", "realm", "realm+uri"}]

\* the branch the interceptor takes for a response, in its order of tests
challenge_statusFirst(resp) ==
    IF resp.status = 401 /\ resp.www # "none" THEN "jauth"
    ELSE IF resp.status = 401 THEN "basic"
    ELSE IF resp.marker THEN "form"
    ELSE "none"

challenge_retryAll(resp) ==
    IF resp.marker THEN "form"
    ELSE IF resp.status = 401 /\ resp.www # "none" THEN "jauth"
    ELSE "basic"

challenge(resp) ==
    IF resp.marker THEN "form"
    ELSE IF resp.status = 401 /\ resp.www # "none" THEN "jauth"
    ELSE IF resp.status = 401 THEN "basic"
    ELSE "none"

count(n) == IF n < MaxCount THEN n + 1 ELSE n

\* the caller's request is issued again
reissued(n, req) ==
    [n EXCEPT !.cur = req,
              !.retries = IF req.kind = "orig" THEN count(@) ELSE @,
              !.tokenPosts = IF req.kind = "token" THEN count(@) ELSE @]

\* history: the response `resp` to n.cur has been handled, `next` is sent
handling(n, resp, next, posted) ==
    [resp |-> resp, req |-> n.cur, next |-> next, posted |-> posted]

\* a credential POST is sent while the activation for `n.cur` awaits it
posting(n, branch, kind, resp) ==
    [n EXCEPT !.stack = Append(@, [branch |-> branch, req |-> n.cur,
                                   both |-> resp.marker /\ resp.status = 401]),
              !.cur = credentialPOST(kind, n.cur.url),
              !.posts = count(@),
              !.late = @ \/ n.retries > 0,
              !.branch = branch,
              !.handled = handling(n, resp, credentialPOST(kind, n.cur.url), TRUE),
              !.jauths = IF branch = "jauth" THEN count(@) ELSE @,
              !.tokenPosts = IF kind = "token" THEN count(@) ELSE @,
              !.both = IF resp.marker /\ resp.status = 401
                       THEN [noBoth EXCEPT !.seen = TRUE, !.branch = branch,
                                           !.before = n.cur]
                       ELSE @]

\* the caller issues a request through this.client
Issue ==
    /\ net.pc \in {"idle", "settled"}
    /\ net' = [idleNet EXCEPT !.pc = "wait"]
    /\ UNCHANGED <<clientVars, lk, res>>

\* the request in flight fails (no response: status 0) or is answered with a
\* status its validateStatus refuses: it rejects, and so does every
\* activation that awaits it
Rejected(status) ==
    /\ net.pc = "wait"
    /\ (status = 0 \/ ~validateStatus(net.cur, status))
    /\ net' = [net EXCEPT !.pc = "settled", !.result = "error", !.stack = <<>>,
                          !.failed = IF net.cur.kind = "orig" THEN @
                                     ELSE "credential POST rejected"]
    /\ UNCHANGED <<clientVars, lk, res>>

\* lines 90-122: the login POST is sent
FormChallenge(resp) ==
    /\ net.pc = "wait"
    /\ validateStatus(net.cur, resp.status)
    /\ challenge(resp) = "form"
    /\ Len(net.stack) < MaxDepth
    /\ net' = posting(net, "form", "login", resp)
    /\ UNCHANGED <<clientVars, lk, res>>

\* lines 123-150: the token POST is sent, or the challenge names no token_uri
JauthChallenge(resp) ==
    /\ net.pc = "wait"
    /\ validateStatus(net.cur, resp.status)
    /\ challenge(resp) = "jauth"
    /\ Len(net.stack) < MaxDepth
    /\ net' = IF resp.www = "realm+uri"
              THEN posting(net, "jauth", "token", resp)
              ELSE [net EXCEPT !.pc = "settled", !.result = "error",
                               !.stack = <<>>, !.branch = "jauth",
                               !.failed = "no token_uri",
                               !.handled = handling(net, resp, net.cur, FALSE)]
    /\ UNCHANGED <<clientVars, lk, res>>

\* requestWithAuth: the request's config with auth set, or left as it is
withAuth_none(req) == req

withAuth(req) == [req EXCEPT !.auth = TRUE]

\* lines 151-159: the request is issued again with basic credentials
BasicChallenge(resp) ==
    /\ net.pc = "wait"
    /\ validateStatus(net.cur, resp.status)
    /\ challenge(resp) = "basic"
    /\ net' = [reissued(net, withAuth(net.cur))
                  EXCEPT !.branch = "basic",
                         !.handled = handling(net, resp, withAuth(net.cur), FALSE),
                         !.both = IF resp.marker
                                  THEN [noBoth EXCEPT !.seen = TRUE,
                                           !.branch = "basic", !.before = net.cur]
                                  ELSE @]
    /\ UNCHANGED <<clientVars, lk, res>>

\* lines 160-163: the response is returned; the activation that awaited it as
\* its login or token response issues its original request again
PassThrough(resp) ==
    /\ net.pc = "wait"
    /\ validateStatus(net.cur, resp.status)
    /\ challenge(resp) = "none"
    /\ net' =
         IF net.stack = <<>>
         THEN [net EXCEPT !.pc = "settled", !.result = "response",
                          !.branch = "none",
                          !.handled = handling(net, resp, net.cur, FALSE)]
         ELSE LET frame == net.stack[Len(net.stack)]
                  again == IF frame.branch = "jauth"
                           THEN [frame.req EXCEPT !.bearer = TRUE]
                           ELSE frame.req
              IN  [reissued(net, again) EXCEPT
                      !.stack = SubSeq(@, 1, Len(@) - 1),
                      !.branch = "none",
                      !.handled = handling(net, resp, again, FALSE),
                      !.retry = [branch |-> frame.branch, req |-> again],
                      !.both = IF frame.both
                               THEN [@ EXCEPT !.retried = TRUE, !.after = again]
                               ELSE @]
    /\ UNCHANGED <<clientVars, lk, res>>

InitAuth ==
    /\ net = idleNet
    /\ clientIdle
    /\ lk = idleLookup
    /\ res = idleRes

\* the URLs of the caller's requests: paths of up to MaxSegments segments,
\* with or without a query string
MaxSegments == 3

Segments == {"ccm", "oslc", "rootservices"}

RequestURLs ==
    UNION { { <<"srv">> \o path \o q : q \in {<<>>, <<"?x=1">>} } :
            path \in SeqsUpTo(Segments, MaxSegments) }

\* a request of the caller to any of the URLs is in flight
InitLogin ==
    /\ net \in { [idleNet EXCEPT !.pc = "wait", !.cur.url = u] : u \in RequestURLs }
    /\ clientIdle
    /\ lk = idleLookup
    /\ res = idleRes

NextLogin == \E r \in ServerResponses : FormChallenge(r)

SpecLogin == InitLogin /\ [][NextLogin]_vars

NextAuth ==
    \/ Issue
    \/ \E s \in {0, 200, 302, 401, 404} : Rejected(s)
    \/ \E r \in ServerResponses : FormChallenge(r)
    \/ \E r \in ServerResponses : JauthChallenge(r)
    \/ \E r \in ServerResponses : BasicChallenge(r)
    \/ \E r \in ServerResponses : PassThrough(r)

SpecAuth == InitAuth /\ [][NextAuth]_vars

\* every HTTP exchange completes: a request in flight is answered
FairSpecAuth == SpecAuth /\ WF_vars(NextAuth)

\* C1: the negotiator re-issues a caller's request at most once: if the
\* retried request is answered with a challenge, no further retry and no
\* further credential exchange is started.
C1_AtMostOneRetry == net.retries <= 1 /\ ~net.late

\* C2: every caller-issued request eventually settles, provided each HTTP
\* exchange completes, also against a server that answers every request with
\* an unauthorized status or with the form-auth marker.
C2_EventuallySettles == (net.pc = "wait") ~> (net.pc = "settled")

\* C3: a response that carries both the form-auth marker and status 401 is
\* handled on the form-auth path (login POST, then retry), never on the
\* token-realm or basic-auth path: its handling puts no credentials on the
\* retried request.
C3_FormBeforeUnauthorized ==
    net.both.seen =>
        /\ net.both.branch = "form"
        /\ net.both.retried => net.both.after = net.both.before

\* the caller's request was answered with marker and 401, and has been
\* issued again after the login, without basic credentials
C3_Witness ==
    /\ net.both.seen /\ net.both.retried
    /\ net.both.before.kind = "orig"
    /\ ~net.both.after.auth

\* C19: on a 401 response whose challenge names a token realm and a token
\* endpoint (without the form-auth marker), the negotiator sends exactly one
\* credential POST to the token endpoint and then re-issues the original
\* request with the Authorization header 'Bearer <token>', after the token
\* response has arrived.
C19_OneTokenPostThenBearer ==
    /\ net.tokenPosts <= net.jauths
    /\ net.retry.branch = "jauth" =>
          /\ net.retry.req.bearer
          /\ authorization(net.retry.req) = "Bearer"

\* C19, first part only: one token POST for each token challenge taken up
C19_OneTokenPost == net.tokenPosts <= net.jauths

\* C19, second part only: the request issued again after the token response
\* goes out with the bearer token
C19_RetryWithBearer ==
    net.retry.branch = "jauth" => authorization(net.retry.req) = "Bearer"

\* C20: on a 401 response to the caller's request that carries neither the
\* form-auth marker nor a token-realm challenge, the negotiator re-issues
\* the request with basic-authentication credentials attached and sends no
\* credential POST.
C20_BasicRetryWithoutPost ==
    (/\ net.handled.resp.status = 401
     /\ ~net.handled.resp.marker
     /\ net.handled.resp.www = "none"
     /\ net.handled.req.kind = "orig") =>
        /\ net.branch = "basic"
        /\ net.handled.next = [net.handled.req EXCEPT !.auth = TRUE]
        /\ authorization(net.handled.next) = "Basic"
        /\ ~net.handled.posted
        /\ net.cur = net.handled.next

\* the caller's request, sent with a bearer token after a token exchange,
\* was answered with a bare 401 and is in flight again with credentials
C20_Witness ==
    /\ net.handled.resp = [status |-> 401, marker |-> FALSE, www |-> "none"]
    /\ net.handled.req = [newRequest("orig") EXCEPT !.bearer = TRUE]
    /\ net.pc = "wait" /\ net.cur.auth

\* C21: a response to the caller's request that carries no form-auth
\* marker and whose status is not 401 is handed to the caller unchanged,
\* and the negotiator issues no additional request (no credential POST, no
\* retry) for it.
C21_PassThroughUnchanged ==
    (/\ net.handled.resp.status \notin {0, 401}
     /\ ~net.handled.resp.marker
     /\ net.handled.req.kind = "orig") =>
        /\ net.branch = "none"
        /\ net.pc = "settled" /\ net.result = "response"
        /\ ~net.handled.posted
        /\ net.handled.next = net.handled.req
        /\ net.cur = net.handled.req
        /\ net.stack = <<>>

\* the caller's request, retried with a bearer token, was answered with 200
\* and the caller has the response
C21_Witness ==
    /\ net.handled.resp = [status |-> 200, marker |-> FALSE, www |-> "none"]
    /\ net.handled.req = [newRequest("orig") EXCEPT !.bearer = TRUE]
    /\ net.pc = "settled" /\ net.result = "response"

\* the token endpoint has answered the credential POST with 401
tokenRefused ==
    net.handled.req.kind = "token" /\ net.handled.resp.status = 401

\* C22: if the auth exchange itself fails (a token challenge that names no
\* token endpoint, a credential POST to the token endpoint that fails, a
\* login POST that is not answered with a redirect), the enclosing
\* operation rejects with an error and the original request is not
\* re-issued.
C22_AuthFailureRejects ==
    (net.failed # "none" \/ tokenRefused) =>
        /\ net.pc = "settled" /\ net.result = "error"
        /\ net.stack = <<>>

\* C22, for a challenge without token endpoint and for a credential POST
\* that axios rejects (no response, or a status its validateStatus refuses)
C22_RejectedExchangeRejects ==
    net.failed # "none" =>
        /\ net.pc = "settled" /\ net.result = "error"
        /\ net.stack = <<>>

\* the statements of a store that are not about the subject and the property
others(store, subject, property) ==
    SelectSeq(store, LAMBDA q : ~(q.s = subject /\ q.p = property))

\* C39: R.set(P, v) changes only statements whose subject is R's subject
\* and whose predicate is P: every statement about another subject, and
\* every statement about R's subject with another predicate, is the same
\* after the call as before, so get(Q) for Q different from P is unchanged.
C39_SetChangesOnlyItsProperty ==
    [][res'.last.op = "set" =>
          /\ others(res'.r.store, sym(res.r.uri), res'.last.p) =
                others(res.r.store, sym(res.r.uri), res'.last.p)
          /\ \A Q \in Properties \ {res'.last.p} :
                get(res'.r, Q) = get(res.r, Q)
          /\ res'.r.uri = res.r.uri]_vars

\* a property has been set on a resource whose store also holds a
\* statement about another subject with that property and a statement
\* about the resource with another property
C39_Witness ==
    /\ res.last.op = "set" /\ res.last.v.k = "single"
    /\ \E i \in 1..Len(res.r.store) :
          res.r.store[i].s # sym(res.r.uri) /\ res.r.store[i].p = res.last.p
    /\ \E i \in 1..Len(res.r.store) :
          res.r.store[i].s = sym(res.r.uri) /\ res.r.store[i].p # res.last.p
    /\ \E i \in 1..Len(res.r.store) :
          res.r.store[i] = st(sym(res.r.uri), res.last.p, res.last.v.v[1])

\* C40: for every provider document and resource-type URI T,
\* OSLCClient.getCreationFactory(T) returns the creation URL that the
\* cached ServiceProvider's getCreationFactory(T) returns, which
\* createResource uses, and fails with the no-creation-factory error
\* exactly when the latter returns null.
C40_SameAsProviderLookup ==
    \A c \in Calls :
        (call[c].op = "getCreationFactory" /\ sp # null) =>
            IF getCreationFactory(sp, call[c].rt) = undefined
            THEN call[c].out = error("No creation factory found for", call[c].rt.v)
            ELSE /\ call[c].out = noError
                 /\ call[c].ret = getCreationFactory(sp, call[c].rt)

\* the part of C40 the code has: the URL returned is the creation URL of a
\* factory of the cached provider document
C40_ReturnsACreationURL ==
    \A c \in Calls :
        (call[c].op = "getCreationFactory" /\ call[c].out = noError) =>
            \E i \in 1..Len(sp.store) :
                /\ sp.store[i].p = oslc("creation")
                /\ sp.store[i].o.v = call[c].ret

====
